---- MODULE Spec2Model ----
(***************************************************************************)
(* The DID catalog core of rucio (lib/rucio/core/did.py): data identifiers *)
(* (files, datasets, containers), their parent/child associations, the     *)
(* archive constituents, the deleted-DID archive, and the operations       *)
(* add_dids, attach_dids_to_dids, detach_dids, delete_dids, set_status and *)
(* resurrect, each run as one transaction.                                 *)
(*                                                                         *)
(* A data identifier is keyed by (scope, name); the model uses one opaque  *)
(* key per (scope, name) pair.  Nullable integer columns hold NULL, and    *)
(* nullable string columns hold NULLS.  The nullable boolean columns       *)
(* is_archive and constituent are read by the code only through tests that *)
(* treat NULL as false, and are modelled as booleans.                      *)
(***************************************************************************)
EXTENDS Integers, Sequences, FiniteSets, Bags, TLC

\* ------------------------------------------------------------------------
\* Values
\* ------------------------------------------------------------------------

\* Python None / SQL NULL in an integer or timestamp column.
NULL == -1
\* Python None / SQL NULL in a string column.
NULLS == "NULL"

FILE == "FILE"
DATASET == "DATASET"
CONTAINER == "CONTAINER"
DIDType == {FILE, DATASET, CONTAINER}

AVAILABLE == "AVAILABLE"
LOST == "LOST"

ATTACH == "ATTACH"
DETACH == "DETACH"

\* Exceptions of rucio.common.exception raised by the operations; NoError is
\* a normal return.
NoError == "NoError"
DataIdentifierNotFound == "DataIdentifierNotFound"
DataIdentifierAlreadyExists == "DataIdentifierAlreadyExists"
UnsupportedOperation == "UnsupportedOperation"
FileConsistencyMismatch == "FileConsistencyMismatch"
FileAlreadyExists == "FileAlreadyExists"
DuplicateContent == "DuplicateContent"
RucioException == "RucioException"
KeyError == "KeyError"

\* ------------------------------------------------------------------------
\* Bounds of the model
\* ------------------------------------------------------------------------

\* Largest number of children named by one attachment or one detach call.
MaxChildren == 2

\* Largest number of calls in one run.
MaxCalls == 3

\* is_archive(name) of rucio.common.utils: the name has an archive extension.
is_archive(name) == name \in {"a.zip"}

\* ------------------------------------------------------------------------
\* Python values of a caller-supplied 'bytes' entry, and str() on them
\* ------------------------------------------------------------------------

Absent == [t |-> "absent", v |-> 0]
PyNone == [t |-> "none", v |-> 0]
PyInt(n) == [t |-> "int", v |-> n]
PyStr(n) == [t |-> "str", v |-> n]     \* the decimal string of n

\* The Python value of a nullable integer column.
ColumnValue(b) == IF b = NULL THEN PyNone ELSE PyInt(b)

\* str(x): None gives 'None', an int its decimal string, a string itself.
str(x) == IF x.t = "none" THEN <<"None", 0>> ELSE <<"digits", x.v>>

\* str(x) of a string column or a supplied checksum: None gives 'None'.
strS(x) == IF x = NULLS THEN "None" ELSE x

ABSENT == "ABSENT"

\* A child entry that supplies nothing but its key.
PlainEntry == [bytes |-> Absent, adler32 |-> ABSENT, md5 |-> ABSENT, events |-> NULL]

\* ------------------------------------------------------------------------
\* State
\* ------------------------------------------------------------------------

VARIABLES
    dids,               \* table dids: live key -> row
    contents,           \* table contents: set of Association rows
    archive_contents,   \* table archive_contents: set of constituent rows
    deleted_dids,       \* table deleted_dids: key -> archived row
    now,                \* datetime.utcnow()
    cfg,                \* configuration read by the operations
    last,               \* the last call: operation, first key, exception raised
    new_messages,       \* bag of messages the last transaction added
    new_updated_dids,   \* bag of updated_dids rows the last transaction added
    new_history,        \* bag of contents_history rows the last transaction added
    calls,              \* number of calls made so far
    rules,              \* table rules: the key and the locked flag of each rule
    scan,               \* the workers of list_expired_dids and what each listed
    txs,                \* the open transactions of concurrent callers
    temp,               \* the temporary tables of a connection and their manager
    follow              \* the followed DIDs, their events and the emails sent

vars == <<dids, contents, archive_contents, deleted_dids, now, cfg, last,
          new_messages, new_updated_dids, new_history, calls, rules, scan, txs,
          temp, follow>>

\* A FILE row as the replica engine registers it.
FileRow(bytes, events, availability, adler32, md5) ==
    [did_type |-> FILE, is_open |-> FALSE, bytes |-> bytes, length |-> 1,
     events |-> events, availability |-> availability, adler32 |-> adler32,
     md5 |-> md5, is_archive |-> FALSE, constituent |-> FALSE,
     expired_at |-> NULL, closed_at |-> NULL, deleted_at |-> NULL]

\* The session of one transaction: the tables as the transaction sees them,
\* the rows it staged for the message and marker tables, and the exception
\* that ended it, if any.
Session(d, c, a, dd) ==
    [dids |-> d, contents |-> c, archive_contents |-> a, deleted_dids |-> dd,
     messages |-> EmptyBag, updated_dids |-> EmptyBag, history |-> EmptyBag,
     rules |-> {}, err |-> NoError]

Raise(s, e) == [s EXCEPT !.err = e]

Exists(s, k) == k \in DOMAIN s.dids

\* d with the row of key k set to row (an insert or an update).
Put(d, k, row) == [j \in DOMAIN d \cup {k} |-> IF j = k THEN row ELSE d[j]]

\* d without the row of key k.
Drop(d, ks) == [j \in DOMAIN d \ ks |-> d[j]]

\* The permutations of a finite set, as sequences: the orders in which a
\* query without ORDER BY may return its rows.
Perms(S) ==
    {p \in [1..Cardinality(S) -> S] : \A a \in S : \E i \in DOMAIN p : p[i] = a}

\* A message of table messages: its event type and the keys of its payload.
Message(event_type, key, child) ==
    [event_type |-> event_type, key |-> key, child |-> child,
     bytes |-> NULL, length |-> NULL, events |-> NULL]

\* ------------------------------------------------------------------------
\* Graph queries
\* ------------------------------------------------------------------------

\* An Association row of table contents.
Association(p, c, did_type, child_type, bytes, adler32, md5, events) ==
    [name |-> p, child |-> c, did_type |-> did_type, child_type |-> child_type,
     bytes |-> bytes, adler32 |-> adler32, md5 |-> md5, events |-> events]

\* The primary key (scope, name, child_scope, child_name) is taken.
HasEdge(c, p, k) == \E r \in c : r.name = p /\ r.child = k

\* list_all_parent_dids: the parents of k, and recursively theirs.  The
\* generator recurses once per row it yields; depth counts the nested
\* generators still allowed, and one more than the number of rows reaches
\* every ancestor.
RECURSIVE ParentsWithin(_, _, _)
ParentsWithin(c, k, depth) ==
    IF depth = 0 THEN {}
    ELSE LET direct == {r.name : r \in {q \in c : q.child = k}}
         IN direct \cup UNION {ParentsWithin(c, pk, depth - 1) : pk \in direct}

\* The generators of list_all_parent_dids on k nest more than depth deep:
\* a chain of more than depth rows leads up from k.
RECURSIVE NestsDeeper(_, _, _)
NestsDeeper(c, k, depth) ==
    \E r \in c : r.child = k /\ (depth = 0 \/ NestsDeeper(c, r.name, depth - 1))

\* list_all_parent_dids on k comes to an end.  A chain of more rows than
\* the table holds passes one row twice, and the generator that meets a row
\* again starts the same walk again, without end: there is no set of the
\* DIDs already visited.
ParentsListed(c, k) == ~NestsDeeper(c, k, Cardinality(c))

list_all_parent_dids_DirectOnly(c, k) == ParentsWithin(c, k, 1)

list_all_parent_dids(c, k) == ParentsWithin(c, k, Cardinality(c) + 1)

\* ------------------------------------------------------------------------
\* Attach engine
\* ------------------------------------------------------------------------

AddFilesRow_NoLostCheck(s, p, files, ign, k, acc) ==
    LET file == files[k] IN
    IF acc.err # NoError THEN acc
    ELSE IF ~Exists(s, k) THEN [acc EXCEPT !.err = DataIdentifierNotFound]
    ELSE LET row == s.dids[k] IN
         IF row.did_type # FILE THEN [acc EXCEPT !.err = UnsupportedOperation]
         ELSE IF \/ file.bytes # Absent /\ str(file.bytes) # str(ColumnValue(row.bytes))
                 \/ file.adler32 # ABSENT /\ strS(file.adler32) # strS(row.adler32)
                 \/ file.md5 # ABSENT /\ strS(file.md5) # strS(row.md5)
              THEN [acc EXCEPT !.err = FileConsistencyMismatch]
         ELSE IF ign /\ HasEdge(s.contents, p, k) THEN acc
         ELSE [acc EXCEPT
                 !.is_archive = acc.is_archive \/ row.is_archive,
                 !.to_add = acc.to_add \cup
                     {Association(p, k, DATASET, FILE, row.bytes, row.adler32,
                                  row.md5, row.events)}]

AddFilesRow_BytesOnly(s, p, files, ign, k, acc) ==
    LET file == files[k] IN
    IF acc.err # NoError THEN acc
    ELSE IF ~Exists(s, k) THEN [acc EXCEPT !.err = DataIdentifierNotFound]
    ELSE LET row == s.dids[k] IN
         IF row.availability = LOST THEN [acc EXCEPT !.err = UnsupportedOperation]
         ELSE IF row.did_type # FILE THEN [acc EXCEPT !.err = UnsupportedOperation]
         ELSE IF file.bytes # Absent /\ str(file.bytes) # str(ColumnValue(row.bytes))
              THEN [acc EXCEPT !.err = FileConsistencyMismatch]
         ELSE IF ign /\ HasEdge(s.contents, p, k) THEN acc
         ELSE [acc EXCEPT
                 !.is_archive = acc.is_archive \/ row.is_archive,
                 !.to_add = acc.to_add \cup
                     {Association(p, k, DATASET, FILE, row.bytes, row.adler32,
                                  row.md5, row.events)}]

AddFilesRow_NoIgnore(s, p, files, ign, k, acc) ==
    LET file == files[k] IN
    IF acc.err # NoError THEN acc
    ELSE IF ~Exists(s, k) THEN [acc EXCEPT !.err = DataIdentifierNotFound]
    ELSE LET row == s.dids[k] IN
         IF row.availability = LOST THEN [acc EXCEPT !.err = UnsupportedOperation]
         ELSE IF row.did_type # FILE THEN [acc EXCEPT !.err = UnsupportedOperation]
         ELSE IF \/ file.bytes # Absent /\ str(file.bytes) # str(ColumnValue(row.bytes))
                 \/ file.adler32 # ABSENT /\ strS(file.adler32) # strS(row.adler32)
                 \/ file.md5 # ABSENT /\ strS(file.md5) # strS(row.md5)
              THEN [acc EXCEPT !.err = FileConsistencyMismatch]
         ELSE [acc EXCEPT
                 !.is_archive = acc.is_archive \/ row.is_archive,
                 !.to_add = acc.to_add \cup
                     {Association(p, k, DATASET, FILE, row.bytes, row.adler32,
                                  row.md5, row.events)}]

\* One row of the loop of __add_files_to_dataset: acc is the loop's state
\* (files_to_add, the pending parent_did.is_archive, the exception raised).
AddFilesRow(s, p, files, ign, k, acc) ==
    LET file == files[k] IN
    IF acc.err # NoError THEN acc
    ELSE IF ~Exists(s, k) THEN [acc EXCEPT !.err = DataIdentifierNotFound]
    ELSE LET row == s.dids[k] IN
         IF row.availability = LOST THEN [acc EXCEPT !.err = UnsupportedOperation]
         ELSE IF row.did_type # FILE THEN [acc EXCEPT !.err = UnsupportedOperation]
         ELSE IF \/ file.bytes # Absent /\ str(file.bytes) # str(ColumnValue(row.bytes))
                 \/ file.adler32 # ABSENT /\ strS(file.adler32) # strS(row.adler32)
                 \/ file.md5 # ABSENT /\ strS(file.md5) # strS(row.md5)
              THEN [acc EXCEPT !.err = FileConsistencyMismatch]
         ELSE IF ign /\ HasEdge(s.contents, p, k) THEN acc
         ELSE [acc EXCEPT
                 !.is_archive = acc.is_archive \/ row.is_archive,
                 !.to_add = acc.to_add \cup
                     {Association(p, k, DATASET, FILE, row.bytes, row.adler32,
                                  row.md5, row.events)}]

RECURSIVE AddFilesLoop(_, _, _, _, _, _, _)
AddFilesLoop(s, p, files, ign, rows, i, acc) ==
    IF i > Len(rows) THEN acc
    ELSE AddFilesLoop(s, p, files, ign, rows, i + 1,
                      AddFilesRow(s, p, files, ign, rows[i], acc))

\* __add_files_to_dataset, with the rows of its query in the order rows:
\* the session afterwards and the files attached (the cont of the caller).
add_files_to_dataset(s, p, files, ign, rows) ==
    LET acc == AddFilesLoop(s, p, files, ign, rows, 1,
                            [to_add |-> {}, is_archive |-> s.dids[p].is_archive,
                             err |-> NoError])
    IN IF acc.err # NoError THEN [s |-> Raise(s, acc.err), cont |-> {}]
       ELSE IF \E r \in acc.to_add : HasEdge(s.contents, p, r.child)
       THEN [s |-> Raise(s, FileAlreadyExists), cont |-> {}]
       ELSE [s |-> [s EXCEPT !.contents = @ \cup acc.to_add,
                             !.dids[p].is_archive = acc.is_archive],
             cont |-> acc.to_add]

AddCollectionsRow_NoCycleCheck(s, p, k, acc) ==
    IF acc.err # NoError THEN acc
    ELSE IF ~Exists(s, k) THEN [acc EXCEPT !.err = DataIdentifierNotFound]
    ELSE LET row == s.dids[k]
             child_type == IF acc.child_type = NULLS THEN row.did_type
                           ELSE acc.child_type
         IN IF row.did_type = FILE THEN [acc EXCEPT !.err = UnsupportedOperation]
            ELSE IF child_type # row.did_type
            THEN [acc EXCEPT !.err = UnsupportedOperation]
            ELSE [acc EXCEPT !.child_type = child_type]

\* One row of the loop of __add_collections_to_container: acc holds
\* child_type (NULLS before the first row) and the exception raised.
AddCollectionsRow(s, p, k, acc) ==
    IF acc.err # NoError THEN acc
    ELSE IF ~Exists(s, k) THEN [acc EXCEPT !.err = DataIdentifierNotFound]
    ELSE LET row == s.dids[k]
             child_type == IF acc.child_type = NULLS THEN row.did_type
                           ELSE acc.child_type
         IN IF row.did_type = FILE THEN [acc EXCEPT !.err = UnsupportedOperation]
            ELSE IF child_type # row.did_type
            THEN [acc EXCEPT !.err = UnsupportedOperation]
            ELSE IF /\ child_type = CONTAINER
                    /\ k \in list_all_parent_dids(s.contents, p)
            THEN [acc EXCEPT !.err = UnsupportedOperation]
            ELSE [acc EXCEPT !.child_type = child_type]

RECURSIVE AddCollectionsLoop(_, _, _, _, _)
AddCollectionsLoop(s, p, rows, i, acc) ==
    IF i > Len(rows) THEN acc
    ELSE AddCollectionsLoop(s, p, rows, i + 1, AddCollectionsRow(s, p, rows[i], acc))

\* __add_collections_to_container, with the rows of its query in the order
\* rows.
add_collections_to_container(s, p, collections, ign, rows) ==
    IF p \in DOMAIN collections THEN Raise(s, UnsupportedOperation)
    ELSE LET acc == AddCollectionsLoop(s, p, rows, 1,
                                       [child_type |-> NULLS, err |-> NoError])
             new == {k \in DOMAIN collections : ~(ign /\ HasEdge(s.contents, p, k))}
         IN IF acc.err # NoError THEN Raise(s, acc.err)
            ELSE IF \E k \in new : HasEdge(s.contents, p, k)
            THEN Raise(s, DuplicateContent)
            ELSE [s EXCEPT
                    !.contents = @ \cup
                        {Association(p, k, CONTAINER, acc.child_type, NULL, NULLS,
                                     NULLS, NULL) : k \in new},
                    !.messages = @ (+)
                        SetToBag({Message("REGISTER_CNT", p, k) : k \in new})]

\* The integer a nullable integer column stores for a Python value.
ColumnOf(x) == IF x.t \in {"none", "absent"} THEN NULL ELSE x.v

\* file.get(key) of a checksum: None when the entry does not supply it.
Get(x) == IF x = ABSENT THEN NULLS ELSE x

\* A row of table archive_contents.
Constituent(p, c, bytes, adler32, md5, length) ==
    [name |-> p, child |-> c, bytes |-> bytes, adler32 |-> adler32, md5 |-> md5,
     length |-> length]

HasConstituent(a, p, k) == \E r \in a : r.name = p /\ r.child = k

AddArchiveRow_AnyType(s, p, files, ign, k, acc) ==
    LET file == files[k] IN
    IF acc.err # NoError THEN acc
    ELSE IF ign /\ HasConstituent(s.archive_contents, p, k) THEN acc
    ELSE IF ~Exists(s, k)
    THEN IF file.bytes = Absent THEN [acc EXCEPT !.err = KeyError]
         ELSE [acc EXCEPT
                 !.dids_to_add = Put(@, k,
                     [FileRow(ColumnOf(file.bytes), file.events, AVAILABLE,
                              Get(file.adler32), Get(file.md5))
                        EXCEPT !.constituent = TRUE]),
                 !.to_add = @ \cup
                     {Constituent(p, k, ColumnOf(file.bytes), Get(file.adler32),
                                  Get(file.md5), file.events)}]
    ELSE LET row == s.dids[k] IN
         [acc EXCEPT
            !.must_set_constituent = @ \/ ~row.constituent,
            !.to_add = @ \cup
                {Constituent(p, k, row.bytes, row.adler32, row.md5, row.events)}]

\* One row of the loop of __add_files_to_archive: acc holds dids_to_add,
\* archive_contents_to_add, must_set_constituent and the exception raised.
AddArchiveRow(s, p, files, ign, k, acc) ==
    LET file == files[k] IN
    IF acc.err # NoError THEN acc
    ELSE IF ign /\ HasConstituent(s.archive_contents, p, k) THEN acc
    ELSE IF ~Exists(s, k)
    THEN IF file.bytes = Absent THEN [acc EXCEPT !.err = KeyError]
         ELSE [acc EXCEPT
                 !.dids_to_add = Put(@, k,
                     [FileRow(ColumnOf(file.bytes), file.events, AVAILABLE,
                              Get(file.adler32), Get(file.md5))
                        EXCEPT !.constituent = TRUE]),
                 !.to_add = @ \cup
                     {Constituent(p, k, ColumnOf(file.bytes), Get(file.adler32),
                                  Get(file.md5), file.events)}]
    ELSE LET row == s.dids[k] IN
         IF row.did_type # FILE THEN [acc EXCEPT !.err = UnsupportedOperation]
         ELSE [acc EXCEPT
                 !.must_set_constituent = @ \/ ~row.constituent,
                 !.to_add = @ \cup
                     {Constituent(p, k, row.bytes, row.adler32, row.md5, row.events)}]

RECURSIVE AddArchiveLoop(_, _, _, _, _, _, _)
AddArchiveLoop(s, p, files, ign, rows, i, acc) ==
    IF i > Len(rows) THEN acc
    ELSE AddArchiveLoop(s, p, files, ign, rows, i + 1,
                        AddArchiveRow(s, p, files, ign, rows[i], acc))

ArchiveDids_ArchiveOnly(s, p, files, acc) ==
    LET d1 == [k \in DOMAIN s.dids \cup DOMAIN acc.dids_to_add |->
                 IF k \in DOMAIN acc.dids_to_add THEN acc.dids_to_add[k]
                 ELSE s.dids[k]]
        d2 == [k \in DOMAIN d1 |->
                 IF acc.must_set_constituent /\ k \in DOMAIN files
                 THEN [d1[k] EXCEPT !.constituent = TRUE] ELSE d1[k]]
    IN [d2 EXCEPT ![p].is_archive = TRUE]

\* The dids rows after __add_files_to_archive has inserted dids_to_add, set
\* constituent on the rows of the temp table, and marked the archive and the
\* datasets that hold it.
ArchiveDids(s, p, files, acc) ==
    LET d1 == [k \in DOMAIN s.dids \cup DOMAIN acc.dids_to_add |->
                 IF k \in DOMAIN acc.dids_to_add THEN acc.dids_to_add[k]
                 ELSE s.dids[k]]
        d2 == [k \in DOMAIN d1 |->
                 IF acc.must_set_constituent /\ k \in DOMAIN files
                 THEN [d1[k] EXCEPT !.constituent = TRUE] ELSE d1[k]]
    IN IF d2[p].is_archive THEN d2
       ELSE [k \in DOMAIN d2 |->
               IF k = p \/ HasEdge(s.contents, k, p)
               THEN [d2[k] EXCEPT !.is_archive = TRUE] ELSE d2[k]]

\* __add_files_to_archive, with the rows of its query in the order rows.
add_files_to_archive(s, p, files, ign, rows) ==
    LET acc == AddArchiveLoop(s, p, files, ign, rows, 1,
                              [dids_to_add |-> <<>>, to_add |-> {},
                               must_set_constituent |-> FALSE, err |-> NoError])
    IN IF acc.err # NoError THEN Raise(s, acc.err)
       ELSE IF \E r \in acc.to_add : HasConstituent(s.archive_contents, p, r.child)
       THEN Raise(s, RucioException)
       ELSE [s EXCEPT !.dids = ArchiveDids(s, p, files, acc),
                      !.archive_contents = @ \cup acc.to_add]

AttachOne_NoOpenCheck(st, attachment, ign, rows) ==
    LET s == st.s
        p == attachment.name
        children == attachment.dids
    IN IF ~Exists(s, p) THEN [st EXCEPT !.s = Raise(s, DataIdentifierNotFound)]
       ELSE IF s.dids[p].did_type = FILE
       THEN IF is_archive(p)
            THEN [st EXCEPT !.s = add_files_to_archive(s, p, children, ign, rows),
                            !.returned = TRUE]
            ELSE [st EXCEPT !.s = Raise(s, UnsupportedOperation)]
       ELSE IF s.dids[p].did_type = DATASET
       THEN LET r == add_files_to_dataset(s, p, children, ign, rows)
            IN [st EXCEPT !.s = r.s,
                          !.parent_dids = IF r.s.err = NoError /\ r.cont # {}
                                          THEN @ (+) SetToBag({p}) ELSE @]
       ELSE LET s2 == add_collections_to_container(s, p, children, ign, rows)
            IN [st EXCEPT !.s = s2,
                          !.parent_dids = IF s2.err = NoError
                                          THEN @ (+) SetToBag({p}) ELSE @]

AttachOne_ArchiveContinues(st, attachment, ign, rows) ==
    LET s == st.s
        p == attachment.name
        children == attachment.dids
    IN IF ~Exists(s, p) THEN [st EXCEPT !.s = Raise(s, DataIdentifierNotFound)]
       ELSE IF s.dids[p].did_type = FILE
       THEN IF is_archive(p)
            THEN [st EXCEPT !.s = add_files_to_archive(s, p, children, ign, rows)]
            ELSE [st EXCEPT !.s = Raise(s, UnsupportedOperation)]
       ELSE IF ~s.dids[p].is_open
       THEN [st EXCEPT !.s = Raise(s, UnsupportedOperation)]
       ELSE IF s.dids[p].did_type = DATASET
       THEN LET r == add_files_to_dataset(s, p, children, ign, rows)
            IN [st EXCEPT !.s = r.s,
                          !.parent_dids = IF r.s.err = NoError /\ r.cont # {}
                                          THEN @ (+) SetToBag({p}) ELSE @]
       ELSE LET s2 == add_collections_to_container(s, p, children, ign, rows)
            IN [st EXCEPT !.s = s2,
                          !.parent_dids = IF s2.err = NoError
                                          THEN @ (+) SetToBag({p}) ELSE @]

\* One iteration of the loop of attach_dids_to_dids.  st holds the session,
\* parent_dids, and whether the function has returned.
AttachOne(st, attachment, ign, rows) ==
    LET s == st.s
        p == attachment.name
        children == attachment.dids
    IN IF ~Exists(s, p) THEN [st EXCEPT !.s = Raise(s, DataIdentifierNotFound)]
       ELSE IF s.dids[p].did_type = FILE
       THEN IF is_archive(p)
            THEN [st EXCEPT !.s = add_files_to_archive(s, p, children, ign, rows),
                            !.returned = TRUE]
            ELSE [st EXCEPT !.s = Raise(s, UnsupportedOperation)]
       ELSE IF ~s.dids[p].is_open
       THEN [st EXCEPT !.s = Raise(s, UnsupportedOperation)]
       ELSE IF s.dids[p].did_type = DATASET
       THEN LET r == add_files_to_dataset(s, p, children, ign, rows)
            IN [st EXCEPT !.s = r.s,
                          !.parent_dids = IF r.s.err = NoError /\ r.cont # {}
                                          THEN @ (+) SetToBag({p}) ELSE @]
       ELSE LET s2 == add_collections_to_container(s, p, children, ign, rows)
            IN [st EXCEPT !.s = s2,
                          !.parent_dids = IF s2.err = NoError
                                          THEN @ (+) SetToBag({p}) ELSE @]

RECURSIVE AttachLoop_SwallowLater(_, _, _, _)
AttachLoop_SwallowLater(sts, attachments, ign, i) ==
    IF i > Len(attachments) THEN sts
    ELSE AttachLoop_SwallowLater(
           UNION {IF st.s.err # NoError \/ st.returned THEN {st}
                  ELSE {LET n == AttachOne(st, attachments[i], ign, rows)
                        IN IF i > 1 /\ n.s.err # NoError THEN st ELSE n :
                          rows \in Perms(DOMAIN attachments[i].dids)} : st \in sts},
           attachments, ign, i + 1)

\* The loop of attach_dids_to_dids over the attachments from the i-th on:
\* the set of states it can end in, one per order of the rows.
RECURSIVE AttachLoop(_, _, _, _)
AttachLoop(sts, attachments, ign, i) ==
    IF i > Len(attachments) THEN sts
    ELSE AttachLoop(
           UNION {IF st.s.err # NoError \/ st.returned THEN {st}
                  ELSE {AttachOne(st, attachments[i], ign, rows) :
                          rows \in Perms(DOMAIN attachments[i].dids)} : st \in sts},
           attachments, ign, i + 1)

UpdatedDID(k, action) == [key |-> k, rule_evaluation_action |-> action]

\* attach_dids_to_dids: the sessions it can end in.  parent_dids is
\* deduplicated and inserted into updated_dids unless the function returned
\* from inside the loop.
attach_dids_to_dids(s, attachments, ign) ==
    {IF st.s.err # NoError \/ st.returned THEN st.s
     ELSE [st.s EXCEPT !.updated_dids = @ (+)
             SetToBag({UpdatedDID(k, ATTACH) : k \in BagToSet(st.parent_dids)})] :
     st \in AttachLoop({[s |-> s, parent_dids |-> EmptyBag, returned |-> FALSE]},
                       attachments, ign, 1)}

\* ------------------------------------------------------------------------
\* Detach engine
\* ------------------------------------------------------------------------

\* The Association row (p, k); used only where HasEdge holds.
Edge(c, p, k) == CHOOSE r \in c : r.name = p /\ r.child = k

\* Python truthiness of a nullable integer: None and 0 are false.
Truthy(n) == n # NULL /\ n # 0

DetachOne_NoHistory(s, p, k) ==
    IF s.err # NoError THEN s
    ELSE IF p = k THEN Raise(s, UnsupportedOperation)
    ELSE IF ~HasEdge(s.contents, p, k) THEN Raise(s, DataIdentifierNotFound)
    ELSE LET associ_did == Edge(s.contents, p, k)
             did == s.dids[p]
             erase == IF did.did_type = CONTAINER
                      THEN SetToBag({Message("ERASE_CNT", p, k)}) ELSE EmptyBag
         IN [s EXCEPT
               !.dids[p].length = IF Truthy(did.length) THEN @ - 1 ELSE @,
               !.dids[p].bytes = IF Truthy(did.bytes) /\ Truthy(associ_did.bytes)
                                 THEN @ - associ_did.bytes ELSE @,
               !.dids[p].events = IF Truthy(did.events) /\ Truthy(associ_did.events)
                                  THEN @ - associ_did.events ELSE @,
               !.contents = @ \ {associ_did},
               !.messages = @ (+) erase (+) SetToBag({Message("DETACH", p, k)})]

DetachOne_SkipMissing(s, p, k) ==
    IF s.err # NoError \/ p = k \/ ~HasEdge(s.contents, p, k) THEN s
    ELSE LET associ_did == Edge(s.contents, p, k)
         IN [s EXCEPT !.contents = @ \ {associ_did},
                      !.history = @ (+) SetToBag({associ_did}),
                      !.messages = @ (+) SetToBag({Message("DETACH", p, k)})]

DetachOne_NotNull(s, p, k) ==
    IF s.err # NoError THEN s
    ELSE IF p = k THEN Raise(s, UnsupportedOperation)
    ELSE IF ~HasEdge(s.contents, p, k) THEN Raise(s, DataIdentifierNotFound)
    ELSE LET associ_did == Edge(s.contents, p, k)
             did == s.dids[p]
             erase == IF did.did_type = CONTAINER
                      THEN SetToBag({Message("ERASE_CNT", p, k)}) ELSE EmptyBag
         IN [s EXCEPT
               !.dids[p].length = IF did.length # NULL THEN @ - 1 ELSE @,
               !.dids[p].bytes = IF did.bytes # NULL /\ associ_did.bytes # NULL
                                 THEN @ - associ_did.bytes ELSE @,
               !.dids[p].events = IF did.events # NULL /\ associ_did.events # NULL
                                  THEN @ - associ_did.events ELSE @,
               !.contents = @ \ {associ_did},
               !.history = @ (+) SetToBag({associ_did}),
               !.messages = @ (+) erase (+) SetToBag({Message("DETACH", p, k)})]

\* One iteration of the loop of detach_dids over the requested children.
DetachOne(s, p, k) ==
    IF s.err # NoError THEN s
    ELSE IF p = k THEN Raise(s, UnsupportedOperation)
    ELSE IF ~HasEdge(s.contents, p, k) THEN Raise(s, DataIdentifierNotFound)
    ELSE LET associ_did == Edge(s.contents, p, k)
             did == s.dids[p]
             erase == IF did.did_type = CONTAINER
                      THEN SetToBag({Message("ERASE_CNT", p, k)}) ELSE EmptyBag
         IN [s EXCEPT
               !.dids[p].length = IF Truthy(did.length) THEN @ - 1 ELSE @,
               !.dids[p].bytes = IF Truthy(did.bytes) /\ Truthy(associ_did.bytes)
                                 THEN @ - associ_did.bytes ELSE @,
               !.dids[p].events = IF Truthy(did.events) /\ Truthy(associ_did.events)
                                  THEN @ - associ_did.events ELSE @,
               !.contents = @ \ {associ_did},
               !.history = @ (+) SetToBag({associ_did}),
               !.messages = @ (+) erase (+) SetToBag({Message("DETACH", p, k)})]

RECURSIVE DetachLoop(_, _, _, _)
DetachLoop(s, p, sources, i) ==
    IF i > Len(sources) THEN s
    ELSE DetachLoop(DetachOne(s, p, sources[i]), p, sources, i + 1)

\* detach_dids(scope, name, dids)
detach_dids(s, p, sources) ==
    IF ~Exists(s, p) \/ s.dids[p].did_type \notin {CONTAINER, DATASET}
    THEN Raise(s, DataIdentifierNotFound)
    ELSE IF ~\E r \in s.contents : r.name = p THEN Raise(s, DataIdentifierNotFound)
    ELSE DetachLoop([s EXCEPT !.updated_dids = @ (+) SetToBag({UpdatedDID(p, DETACH)})],
                    p, sources, 1)

\* ------------------------------------------------------------------------
\* Aggregation
\* ------------------------------------------------------------------------

\* SQL SUM of an integer column over rows: NULLs are skipped, and the sum of
\* no value is NULL.
RECURSIVE Sum(_, _)
Sum(rows, col) ==
    IF rows = {} THEN NULL
    ELSE LET r == CHOOSE q \in rows : TRUE
             rest == Sum(rows \ {r}, col)
         IN IF r[col] = NULL THEN rest
            ELSE IF rest = NULL THEN r[col] ELSE r[col] + rest

\* One step of the recursive CTE of list_one_did_childs_stmt: the rows
\* found so far and the rows under their children, over parents of a type
\* in dids_to_resolve.
RECURSIVE ChildRows(_, _, _, _)
ChildRows(c, found, dids_to_resolve, depth) ==
    LET next == found \cup
                {r \in c : /\ r.did_type \in dids_to_resolve
                           /\ \E q \in found : q.child = r.name}
    IN IF depth = 0 \/ next = found THEN found
       ELSE ChildRows(c, next, dids_to_resolve, depth - 1)

list_one_did_childs_DirectOnly(c, k, did_type) ==
    LET dids_to_resolve == IF did_type = DATASET THEN {CONTAINER}
                           ELSE {CONTAINER, DATASET}
        initial_set == {r \in c : r.name = k /\ r.did_type \in dids_to_resolve}
    IN {r.child : r \in {q \in initial_set : q.child_type = did_type}}

\* list_one_did_childs_stmt(scope, name, did_type): the distinct children of
\* type did_type below k.
list_one_did_childs(c, k, did_type) ==
    LET dids_to_resolve == IF did_type = DATASET THEN {CONTAINER}
                           ELSE {CONTAINER, DATASET}
        initial_set == {r \in c : r.name = k /\ r.did_type \in dids_to_resolve}
        cte == ChildRows(c, initial_set, dids_to_resolve, Cardinality(c))
    IN {r.child : r \in {q \in cte : q.child_type = did_type}}

\* list_child_dids_stmt(input_dids_table, did_type): the distinct children
\* of type did_type below the DIDs of the input table.
list_child_dids(c, input_dids, did_type) ==
    LET dids_to_resolve == IF did_type = DATASET THEN {CONTAINER}
                           ELSE {CONTAINER, DATASET}
        initial_set == {r \in c : r.name \in input_dids /\ r.did_type \in dids_to_resolve}
        cte == ChildRows(c, initial_set, dids_to_resolve, Cardinality(c))
    IN {r.child : r \in {q \in cte : q.child_type = did_type}}

or0(n) == IF n = NULL THEN 0 ELSE n

resolve_bytes_length_events_did_Stored(s, k, dynamic_depth) ==
    LET did == s.dids[k]
    IN [bytes |-> or0(did.bytes), length |-> or0(did.length),
        events |-> or0(did.events)]

\* __resolve_bytes_length_events_did(did, dynamic_depth): bytes, length and
\* events of the DID of key k.
resolve_bytes_length_events_did(s, k, dynamic_depth) ==
    LET did == s.dids[k]
        child_did == list_one_did_childs(s.contents, k, DATASET)
        OfRows(rows) == [bytes |-> or0(Sum(rows, "bytes")),
                         length |-> Cardinality(rows),
                         events |-> or0(Sum(rows, "events"))]
    IN IF did.did_type = DATASET /\ dynamic_depth = FILE
       THEN OfRows({r \in s.contents : r.name = k})
       ELSE IF did.did_type = CONTAINER /\ dynamic_depth = DATASET
       THEN LET rows == {[key |-> j, bytes |-> s.dids[j].bytes,
                          length |-> s.dids[j].length, events |-> s.dids[j].events] :
                         j \in child_did \cap DOMAIN s.dids}
            IN [bytes |-> or0(Sum(rows, "bytes")), length |-> or0(Sum(rows, "length")),
                events |-> or0(Sum(rows, "events"))]
       ELSE IF did.did_type = CONTAINER /\ dynamic_depth = FILE
       THEN OfRows({r \in s.contents : r.name \in child_did})
       ELSE IF did.did_type = FILE
       THEN [bytes |-> or0(did.bytes), length |-> 1, events |-> or0(did.events)]
       ELSE [bytes |-> or0(did.bytes), length |-> or0(did.length),
             events |-> or0(did.events)]

\* ------------------------------------------------------------------------
\* Set status
\* ------------------------------------------------------------------------

set_status_AnyState(s, k, open, t) ==
    IF ~Exists(s, k) THEN Raise(s, DataIdentifierNotFound)
    ELSE IF s.dids[k].did_type = FILE THEN Raise(s, UnsupportedOperation)
    ELSE IF ~open
    THEN LET v == resolve_bytes_length_events_did(s, k, FILE)
         IN [s EXCEPT
               !.dids[k] = [@ EXCEPT !.is_open = FALSE, !.closed_at = t,
                              !.bytes = v.bytes, !.length = v.length,
                              !.events = v.events],
               !.messages = @ (+) SetToBag({[Message("CLOSE", k, NULLS) EXCEPT
                              !.bytes = v.bytes, !.length = v.length,
                              !.events = v.events]})]
    ELSE [s EXCEPT !.dids[k].is_open = TRUE,
                   !.messages = @ (+) SetToBag({Message("OPEN", k, NULLS)})]

\* set_status(scope, name, open=open) at time t.  The message is staged
\* before the UPDATE whose rowcount decides whether the call raises.
set_status(s, k, open, t) ==
    IF ~open
    THEN IF ~Exists(s, k) THEN Raise(s, DataIdentifierNotFound)
         ELSE LET v == resolve_bytes_length_events_did(s, k, FILE)
                  did == s.dids[k]
                  s1 == [s EXCEPT !.messages = @ (+)
                           SetToBag({[Message("CLOSE", k, NULLS) EXCEPT
                                        !.bytes = v.bytes, !.length = v.length,
                                        !.events = v.events]})]
              IN IF did.did_type \in {CONTAINER, DATASET} /\ did.is_open
                 THEN [s1 EXCEPT
                         !.dids[k] = [did EXCEPT !.is_open = FALSE, !.closed_at = t,
                                        !.bytes = v.bytes, !.length = v.length,
                                        !.events = v.events]]
                 ELSE Raise(s1, UnsupportedOperation)
    ELSE LET s1 == [s EXCEPT !.messages = @ (+) SetToBag({Message("OPEN", k, NULLS)})]
         IN IF Exists(s, k) /\ s.dids[k].did_type \in {CONTAINER, DATASET}
               /\ ~s.dids[k].is_open
            THEN [s1 EXCEPT !.dids[k].is_open = TRUE]
            ELSE IF ~Exists(s, k) THEN Raise(s1, DataIdentifierNotFound)
            ELSE Raise(s1, UnsupportedOperation)

\* ------------------------------------------------------------------------
\* Add
\* ------------------------------------------------------------------------

\* A new row of add_dids.
CollectionRow(did_type, expired_at) ==
    [did_type |-> did_type, is_open |-> TRUE, bytes |-> NULL, length |-> NULL,
     events |-> NULL, availability |-> AVAILABLE, adler32 |-> NULLS, md5 |-> NULLS,
     is_archive |-> FALSE, constituent |-> FALSE, expired_at |-> expired_at,
     closed_at |-> NULL, deleted_at |-> NULL]

AddOne_Overwrite(st, did, t) ==
    LET s == st.s IN
    IF s.err # NoError THEN {st}
    ELSE IF did.type = FILE THEN {[st EXCEPT !.s = Raise(s, UnsupportedOperation)]}
    ELSE {[st EXCEPT !.s.dids = Put(@, did.name, CollectionRow(did.type, NULL))]}

\* One iteration of the loop of add_dids, from session st.s: the states it
\* can end in.  st.dup is set once a row was added whose key is taken: the
\* insert fails at the next flush, which a query of attach_dids or the end
\* of the function triggers.
AddOne(st, did, t) ==
    LET s == st.s IN
    IF s.err # NoError THEN {st}
    ELSE IF did.type = FILE THEN {[st EXCEPT !.s = Raise(s, UnsupportedOperation)]}
    ELSE LET expired_at == IF Truthy(did.lifetime) THEN t + did.lifetime ELSE NULL
             dup == st.dup \/ Exists(s, did.name)
             s1 == IF dup THEN s
                   ELSE [s EXCEPT !.dids = Put(@, did.name,
                                                CollectionRow(did.type, expired_at))]
             event_type == IF did.type = CONTAINER THEN "CREATE_CNT" ELSE "CREATE_DTS"
             Created(s2) == IF s2.err # NoError THEN s2
                            ELSE [s2 EXCEPT !.messages = @ (+)
                                    SetToBag({Message(event_type, did.name, NULLS)})]
         IN IF DOMAIN did.dids = {}
            THEN {[s |-> Created(s1), dup |-> dup]}
            ELSE IF dup
            THEN {[s |-> Raise(s, DataIdentifierAlreadyExists), dup |-> dup]}
            ELSE {[s |-> Created(s2), dup |-> dup] :
                    s2 \in attach_dids_to_dids(
                             s1, <<[name |-> did.name, dids |-> did.dids]>>, FALSE)}

RECURSIVE AddLoop(_, _, _, _)
AddLoop(sts, add, t, i) ==
    IF i > Len(add) THEN sts
    ELSE AddLoop(UNION {AddOne(st, add[i], t) : st \in sts}, add, t, i + 1)

\* add_dids(dids, account) at time t: the sessions it can end in.
add_dids(s, add, t) ==
    {IF st.s.err = NoError /\ st.dup THEN Raise(st.s, DataIdentifierAlreadyExists)
     ELSE st.s : st \in AddLoop({[s |-> s, dup |-> FALSE]}, add, t, 1)}

\* ------------------------------------------------------------------------
\* Delete engine
\* ------------------------------------------------------------------------

IntegrityError == "IntegrityError"

DetachFromParents_Skipped(s, rows) == s

\* The loop "Detach from parent DIDs" of delete_dids over the rows found.
RECURSIVE DetachFromParents(_, _)
DetachFromParents(s, rows) ==
    IF rows = {} \/ s.err # NoError THEN s
    ELSE LET r == CHOOSE q \in rows : TRUE
         IN DetachFromParents(detach_dids(s, r.name, <<r.child>>), rows \ {r})

\* insert_content_history(filter_) for the content of the DIDs in ks.
insert_content_history(s, ks) ==
    [s EXCEPT !.history = @ (+) SetToBag({r \in s.contents : r.name \in ks})]

\* The keys of the input DIDs that the caller declares as files, and as
\* collections.
FileDids(del) == {del[i].name : i \in {j \in DOMAIN del : del[j].did_type = FILE}}
CollectionDids(del) == {del[i].name : i \in {j \in DOMAIN del : del[j].did_type # FILE}}

\* "Remove content" of delete_dids: the Associations of the collections ks.
RemoveContent_Skipped(s, ks) == s

RemoveContent(s, ks) == [s EXCEPT !.contents = {r \in @ : r.name \notin ks}]

dids_to_delete_filter_AnyType(s, ks) == ks \cap DOMAIN s.dids

\* dids_to_delete_filter of delete_dids: the rows whose key is in the
\* temporary table, filled with collection_dids, and whose stored type is
\* CONTAINER or DATASET.
dids_to_delete_filter(s, ks) ==
    {k \in ks \cap DOMAIN s.dids : s.dids[k].did_type \in {CONTAINER, DATASET}}

\* insert_deleted_dids(filter_) at time t for the DIDs ks: deleted_dids
\* takes a copy of each row, with deleted_at set to the time of the call.
insert_deleted_dids(s, ks, t) ==
    [s EXCEPT !.deleted_dids =
       [k \in DOMAIN @ \cup ks |->
          IF k \in ks THEN [s.dids[k] EXCEPT !.deleted_at = t] ELSE @[k]]]

\* Default of config_get_int('undertaker', 'expire_rules_locks_size').
expire_rules_locks_size == 10000

\* The rules the statement of the rules phase joins to the input DIDs.
RulesOn(s, ks) == {rule \in s.rules : rule.key \in ks}

\* The rules of the input DIDs that are expired instead of deleted.
LargeRules(s, ks, expire_rules) ==
    {rule \in RulesOn(s, ks) :
       expire_rules /\ rule.locks_ok_cnt + rule.locks_replicating_cnt
                        + rule.locks_stuck_cnt > expire_rules_locks_size}

\* rucio.core.rule.delete_rule: with soft=True the rule stays and expires
\* later, otherwise the rule is removed.
delete_rule(r, rule, soft) ==
    IF soft THEN (r \ {rule}) \cup {[rule EXCEPT !.soft_deleted = TRUE]}
    ELSE r \ {rule}

RECURSIVE DeleteRulesLoop(_, _, _)
DeleteRulesLoop(r, todo, large) ==
    IF todo = {} THEN r
    ELSE LET rule == CHOOSE q \in todo : TRUE
         IN DeleteRulesLoop(delete_rule(r, rule, rule \in large), todo \ {rule}, large)

\* set_metadata(key='lifetime', value=3600 * 24) at time t.
SetLifetime(d, ks, t) ==
    [k \in DOMAIN d |-> IF k \in ks THEN [d[k] EXCEPT !.expired_at = t + 3600 * 24]
                        ELSE d[k]]

\* The loop over the rules of the input DIDs.
DeleteRules(s, ks, expire_rules, t) ==
    LET large == LargeRules(s, ks, expire_rules)
    IN [s EXCEPT !.rules = DeleteRulesLoop(@, RulesOn(s, ks), large),
                 !.dids = SetLifetime(@, {rule.key : rule \in large}, t)]

skip_deletion_Unset(s, ks, expire_rules) == FALSE

\* skip_deletion after the loop over the rules.
skip_deletion(s, ks, expire_rules) == LargeRules(s, ks, expire_rules) # {}

\* delete_dids(dids, account, expire_rules) under configuration c, at time
\* t.
delete_dids(s, del, expire_rules, c, t) ==
    LET all_dids == {del[i].name : i \in DOMAIN del}
        file_dids == FileDids(del)
        collection_dids == CollectionDids(del)
        sm == [(IF c.archive_content THEN insert_content_history(s, all_dids) ELSE s)
                 EXCEPT !.messages = @ (+)
                   SetToBag({Message("ERASE", k, NULLS) : k \in all_dids})]
        s0 == DeleteRules(sm, all_dids, expire_rules, t)
        parent_rows == {r \in s0.contents : r.child \in all_dids}
        existing_parent_dids == parent_rows # {}
        s1 == DetachFromParents(s0, parent_rows)
        s2 == IF collection_dids = {} THEN s1
              ELSE RemoveContent(s1, collection_dids)
        to_delete == dids_to_delete_filter(s2, collection_dids)
        s3 == IF ~c.archive_dids THEN s2
              ELSE IF to_delete \cap DOMAIN s2.deleted_dids # {}
              THEN Raise(s2, IntegrityError)
              ELSE insert_deleted_dids(s2, to_delete, t)
        s4 == [s3 EXCEPT !.dids = Drop(@, to_delete)]
        s5 == [s4 EXCEPT !.dids =
                 [k \in DOMAIN @ |->
                    IF k \in file_dids /\ @[k].did_type = FILE
                    THEN [@[k] EXCEPT !.expired_at = NULL] ELSE @[k]]]
    IN IF del = <<>> THEN s
       ELSE IF skip_deletion(sm, all_dids, expire_rules) THEN s0
       ELSE IF s1.err # NoError THEN s1
       ELSE IF existing_parent_dids THEN s2
       ELSE IF s3.err # NoError THEN s3
       ELSE s5

\* ------------------------------------------------------------------------
\* Resurrect
\* ------------------------------------------------------------------------

\* One iteration of the loop of resurrect at time t.  st.dup is set once a
\* row was added whose key is live: the insert fails at the flush.
ResurrectOne(st, k, t) ==
    LET s == st.s IN
    IF s.err # NoError THEN st
    ELSE IF st.dup THEN [st EXCEPT !.s = Raise(s, IntegrityError)]
    ELSE IF k \in DOMAIN s.deleted_dids
    THEN LET row == [s.deleted_dids[k] EXCEPT !.expired_at = NULL]
         IN [s |-> [s EXCEPT !.deleted_dids = Drop(@, {k}),
                             !.dids = IF Exists(s, k) THEN @ ELSE Put(@, k, row)],
             dup |-> st.dup \/ Exists(s, k)]
    ELSE IF Exists(s, k) /\ s.dids[k].expired_at # NULL /\ s.dids[k].expired_at < t
    THEN [st EXCEPT !.s.dids[k].expired_at = NULL]
    ELSE [st EXCEPT !.s = Raise(s, DataIdentifierNotFound)]

RECURSIVE ResurrectLoop(_, _, _, _)
ResurrectLoop(st, ks, t, i) ==
    IF i > Len(ks) THEN st
    ELSE ResurrectLoop(ResurrectOne(st, ks[i], t), ks, t, i + 1)

\* resurrect(dids) at time t.
resurrect(s, ks, t) ==
    LET st == ResurrectLoop([s |-> s, dup |-> FALSE], ks, t, 1)
    IN IF st.s.err = NoError /\ st.dup THEN Raise(st.s, IntegrityError) ELSE st.s

\* ------------------------------------------------------------------------
\* Transactions and the operations as actions
\* ------------------------------------------------------------------------

\* The session a transaction starts with.
Begin == [Session(dids, contents, archive_contents, deleted_dids)
           EXCEPT !.rules = rules]

\* transactional_session: the transaction of session s commits when the
\* operation returned and is rolled back when it raised.
Commit(op, key, s) ==
    LET ok == s.err = NoError IN
    /\ calls' = calls + 1
    /\ dids' = IF ok THEN s.dids ELSE dids
    /\ contents' = IF ok THEN s.contents ELSE contents
    /\ archive_contents' = IF ok THEN s.archive_contents ELSE archive_contents
    /\ deleted_dids' = IF ok THEN s.deleted_dids ELSE deleted_dids
    /\ new_messages' = IF ok THEN s.messages ELSE EmptyBag
    /\ new_updated_dids' = IF ok THEN s.updated_dids ELSE EmptyBag
    /\ new_history' = IF ok THEN s.history ELSE EmptyBag
    /\ rules' = IF ok THEN s.rules ELSE rules
    /\ last' = [op |-> op, key |-> key, err |-> s.err]
    /\ UNCHANGED <<now, cfg, scan, txs, temp, follow>>

\* The non-empty sets of at most MaxChildren keys of K.
ChildSets(K) == {ch \in SUBSET K : ch # {} /\ Cardinality(ch) <= MaxChildren}

\* The sequences of one or two different keys of K, for detach_dids.
ChildSeqs(K) == {<<k>> : k \in K} \cup
                {q \in {<<j, k>> : j \in K, k \in K} : q[1] # q[2]}

\* The children dictionary of an attachment that supplies keys only.
Plain(ch) == [k \in ch |-> PlainEntry]

Attachment(p, children) == [name |-> p, dids |-> children]

\* add_dids of one DID of key in K without content.
AddDids(K) ==
    /\ calls < MaxCalls
    /\ \E k \in K, did_type \in DIDType :
      \E s \in add_dids(Begin, <<[name |-> k, type |-> did_type, lifetime |-> NULL,
                                  dids |-> <<>>]>>, now) :
        Commit("add_dids", k, s)

\* attach_dids_to_dids of one attachment: a parent of P and a children
\* dictionary of Children.
AttachWith(P, Children) ==
    /\ calls < MaxCalls
    /\ \E p \in P, children \in Children, ign \in BOOLEAN :
      \E s \in attach_dids_to_dids(Begin, <<Attachment(p, children)>>, ign) :
        Commit("attach_dids_to_dids", p, s)

\* attach_dids_to_dids of a batch of two attachments, each a parent of P and
\* a children dictionary of Children.
AttachBatch(P, Children) ==
    /\ calls < MaxCalls
    /\ \E p1 \in P, p2 \in P, ch1 \in Children, ch2 \in Children, ign \in BOOLEAN :
      \E s \in attach_dids_to_dids(Begin, <<Attachment(p1, ch1), Attachment(p2, ch2)>>,
                                   ign) :
        Commit("attach_batch", p1, s)

\* attach_dids_to_dids of one attachment over the keys K, keys only.
AttachDids(K) == AttachWith(K, {Plain(ch) : ch \in ChildSets(K)})

\* detach_dids from a parent of P of one or two children of K.
DetachFrom(P, K) ==
    /\ calls < MaxCalls
    /\ \E p \in P, sources \in ChildSeqs(K) :
      Commit("detach_dids", p, detach_dids(Begin, p, sources))

DetachDids(K) == DetachFrom(K, K)

\* delete_dids of one DID of key in K, of any declared type.
DeleteDids(K) ==
    /\ calls < MaxCalls
    /\ \E k \in K, did_type \in DIDType :
      Commit("delete_dids", k,
             delete_dids(Begin, <<[name |-> k, did_type |-> did_type]>>, FALSE, cfg, now))

\* The batches of one or two different DIDs of K, each of any declared type.
DeleteBatches(K) ==
    UNION {{[i \in DOMAIN q |-> [name |-> q[i], did_type |-> types[i]]] :
              types \in [DOMAIN q -> DIDType]} : q \in ChildSeqs(K)}

\* delete_dids of a batch of DIDs of K, with or without expire_rules.
DeleteBatch(K) ==
    /\ calls < MaxCalls
    /\ \E del \in DeleteBatches(K), expire_rules \in BOOLEAN :
      Commit("delete_dids", del[1].name, delete_dids(Begin, del, expire_rules, cfg, now))

SetStatus(K) ==
    /\ calls < MaxCalls
    /\ \E k \in K, open \in BOOLEAN :
      Commit("set_status", k, set_status(Begin, k, open, now))

Resurrect(K) ==
    /\ calls < MaxCalls
    /\ \E k \in K : Commit("resurrect", k, resurrect(Begin, <<k>>, now))

\* No worker of list_expired_dids has been started.
NoScan == [dialect |-> "sqlite", total_workers |-> 0, listed |-> <<>>]

\* No concurrent transaction is open.
NoTxs == <<>>

\* No temporary table has been asked for.
NoTemp == <<>>

\* No follower, no event and no email.
NoFollow == <<>>

\* The catalog before the first call: the DIDs d and the Associations c.
InitWith(d, c, configs) ==
    /\ dids = d
    /\ contents = c
    /\ archive_contents = {}
    /\ deleted_dids = <<>>
    /\ now = 0
    /\ cfg \in configs
    /\ last = [op |-> "none", key |-> NULLS, err |-> NoError]
    /\ new_messages = EmptyBag
    /\ new_updated_dids = EmptyBag
    /\ new_history = EmptyBag
    /\ calls = 0
    /\ rules = {}
    /\ scan = NoScan
    /\ txs = NoTxs
    /\ temp = NoTemp
    /\ follow = NoFollow

\* ------------------------------------------------------------------------
\* The catalog of collections: three keys that add_dids may register as
\* DATASET or CONTAINER, and one file.
\* ------------------------------------------------------------------------

Keys == {"x", "y", "z", "f1"}

\* The collections registered before the run, by type: all open and empty,
\* as add_dids leaves them.
InitialTypes ==
    {<<CONTAINER, CONTAINER, CONTAINER>>, <<CONTAINER, CONTAINER, DATASET>>,
     <<CONTAINER, DATASET, DATASET>>, <<DATASET, DATASET, DATASET>>}

InitialDids(types) ==
    [k \in Keys |->
       IF k = "f1" THEN FileRow(10, 3, AVAILABLE, "ad1", "m1")
       ELSE CollectionRow(types[IF k = "x" THEN 1 ELSE IF k = "y" THEN 2 ELSE 3],
                          NULL)]

Init ==
    \E types \in InitialTypes :
      InitWith(InitialDids(types), {}, [archive_dids : BOOLEAN, archive_content : {FALSE}])

Next ==
    \/ AddDids(Keys \ {"f1"})
    \/ AttachDids(Keys)
    \/ DetachDids(Keys)
    \/ DeleteDids(Keys)
    \/ SetStatus(Keys)
    \/ Resurrect(Keys)

Spec == Init /\ [][Next]_vars

\* ------------------------------------------------------------------------
\* Properties of the catalog of collections
\* ------------------------------------------------------------------------

Live(k) == k \in DOMAIN dids

IsType(k, did_type) == Live(k) /\ dids[k].did_type = did_type

\* The keys from which k is reached over the rows of c: the least set that
\* holds the parents of k and the parents of its members.
RECURSIVE Closure(_, _)
Closure(c, found) ==
    LET next == found \cup {r.name : r \in {q \in c : q.child \in found}}
    IN IF next = found THEN found ELSE Closure(c, next)

Above(c, k) == Closure(c, {r.name : r \in {q \in c : q.child = k}})

ContainerEdges == {r \in contents : r.did_type = CONTAINER /\ r.child_type = CONTAINER}

\* The sessions in which attach_dids_to_dids of children ch (keys only) to
\* parent p can end, from the current catalog.
AttachOutcomes(p, ch, ign) ==
    attach_dids_to_dids(Begin, <<Attachment(p, Plain(ch))>>, ign)

\* The session has written nothing: no Association, no marker, no message.
NothingAdded(s) ==
    /\ s.contents = contents
    /\ s.updated_dids = EmptyBag
    /\ s.messages = EmptyBag

\* C1: the Association graph over CONTAINER->CONTAINER edges is acyclic: no
\* container is its own direct or transitive ancestor.
C1_NoContainerCycle ==
    \A k \in Keys : k \notin Above(ContainerEdges, k)

\* C1 witness: a chain of two CONTAINER->CONTAINER edges exists and the
\* attachment that would have closed it into a cycle was just refused.
C1_Witness ==
    /\ last.op = "attach_dids_to_dids" /\ last.err = UnsupportedOperation
    /\ IsType(last.key, CONTAINER) /\ dids[last.key].is_open
    /\ \E r1, r2 \in ContainerEdges :
         /\ r1.child = r2.name /\ r2.child = last.key
         /\ \A s \in AttachOutcomes(last.key, {r1.name}, FALSE) :
              s.err = UnsupportedOperation

\* C2: all children of one CONTAINER have the same child_type.
C2_OneChildType ==
    \A p \in Keys :
      Cardinality({r.child_type : r \in {q \in contents : q.name = p /\ q.did_type = CONTAINER}}) <= 1

\* C3: every Association row has a live parent that is not a FILE and a
\* live child.
C3_EndpointsLive ==
    \A r \in contents : Live(r.name) /\ Live(r.child) /\ dids[r.name].did_type # FILE

\* C3 witness: delete_dids has just removed a collection while other
\* Associations remain.
C3_Witness ==
    /\ last.op = "delete_dids" /\ last.err = NoError
    /\ ~Live(last.key)
    /\ contents # {}

\* C5: attach_dids_to_dids on a closed DATASET or CONTAINER raises
\* UnsupportedOperation for every list of children, having added no
\* Association, no Updated-DID marker and no message; and a call that
\* raised leaves none of them behind.
C5_ClosedParentRefused ==
    /\ \A p \in Keys :
         (Live(p) /\ dids[p].did_type \in {DATASET, CONTAINER} /\ ~dids[p].is_open) =>
           \A ch \in ChildSets(Keys), ign \in BOOLEAN :
             \A s \in AttachOutcomes(p, ch, ign) :
               s.err = UnsupportedOperation /\ NothingAdded(s)
    /\ (last.op = "attach_dids_to_dids" /\ last.err # NoError) =>
         /\ new_messages = EmptyBag
         /\ new_updated_dids = EmptyBag

\* C5 witness: an attach to a closed collection has just been refused.
C5_Witness ==
    /\ last.op = "attach_dids_to_dids" /\ last.err = UnsupportedOperation
    /\ Live(last.key) /\ dids[last.key].did_type \in {DATASET, CONTAINER}
    /\ ~dids[last.key].is_open

\* C7: attach_dids_to_dids to CONTAINER P of a list that names a CONTAINER
\* which is a direct or transitive ancestor of P fails and leaves the
\* Associations as they are; the exception is UnsupportedOperation whenever
\* every DID of the list exists.
C7_AncestorRefused ==
    \A p \in Keys, ch \in ChildSets(Keys), ign \in BOOLEAN :
      (/\ IsType(p, CONTAINER)
       /\ \E k \in ch : IsType(k, CONTAINER) /\ k \in Above(contents, p)) =>
        \A s \in AttachOutcomes(p, ch, ign) :
          /\ s.err # NoError
          /\ s.contents = contents
          /\ (\A k \in ch : Live(k)) => s.err = UnsupportedOperation

\* C7 witness: an open container has just refused a container that is its
\* ancestor, but not its parent.
C7_Witness ==
    /\ last.op = "attach_dids_to_dids" /\ last.err = UnsupportedOperation
    /\ IsType(last.key, CONTAINER) /\ dids[last.key].is_open
    /\ \E k \in Above(contents, last.key) :
         /\ IsType(k, CONTAINER)
         /\ ~HasEdge(contents, k, last.key)
         /\ \A s \in AttachOutcomes(last.key, {k}, FALSE) : s.err = UnsupportedOperation

\* ------------------------------------------------------------------------
\* The catalog of one dataset: the dataset "d", files of the replica engine
\* ("f0" without size, events or checksums, "f3" LOST), and a key "g" that
\* add_dids may register.  Callers supply bytes and checksums.
\* ------------------------------------------------------------------------

FileKeys == {"d", "f0", "f1", "f2", "f3", "g"}

FilesDids ==
    [k \in FileKeys \ {"g"} |->
       CASE k = "f0" -> FileRow(NULL, NULL, AVAILABLE, NULLS, NULLS)
         [] k = "f1" -> FileRow(10, 3, AVAILABLE, "ad1", "m1")
         [] k = "f2" -> FileRow(20, 7, AVAILABLE, "ad2", NULLS)
         [] k = "f3" -> FileRow(5, 1, LOST, "ad3", "m3")
         [] OTHER -> CollectionRow(DATASET, NULL)]

\* The entries a caller supplies for the child k: its key only, or its key
\* and one of bytes, adler32, md5.
Entries(k) ==
    IF k \in {"f0", "f1"}
    THEN {PlainEntry}
           \cup {[PlainEntry EXCEPT !.bytes = b] : b \in {PyInt(20), PyStr(10), PyNone}}
           \cup {[PlainEntry EXCEPT !.adler32 = a] : a \in {"ad1", NULLS}}
           \cup {[PlainEntry EXCEPT !.md5 = m] : m \in {"m1", NULLS}}
    ELSE {PlainEntry, [PlainEntry EXCEPT !.bytes = PyInt(20)]}

\* The children dictionaries over K in which at most one child has more
\* than its key.
ChildrenWith(K) ==
    UNION {{Plain(ch)} \cup
           UNION {{[Plain(ch) EXCEPT ![k] = e] : e \in Entries(k)} : k \in ch} :
           ch \in ChildSets(K)}

InitFiles ==
    InitWith(FilesDids, {}, [archive_dids : {FALSE}, archive_content : {FALSE}])

NextFiles ==
    \/ AddDids({"g"})
    \/ AttachWith({"d"}, ChildrenWith(FileKeys))
    \/ DetachFrom({"d"}, {"f0", "f1", "f2", "g"})
    \/ SetStatus({"d"})

SpecFiles == InitFiles /\ [][NextFiles]_vars

\* ------------------------------------------------------------------------
\* Properties of the catalog of one dataset
\* ------------------------------------------------------------------------

\* The exception the child k alone deserves from a dataset: none for an
\* available FILE.
Defect(k) ==
    IF ~Live(k) THEN DataIdentifierNotFound
    ELSE IF dids[k].did_type # FILE \/ dids[k].availability = LOST
    THEN UnsupportedOperation
    ELSE NoError

\* The supplied integer x differs from the stored integer v.
DiffersInt(x, v) ==
    CASE x.t = "absent" -> FALSE
      [] x.t = "none" -> v # NULL
      [] OTHER -> v = NULL \/ x.v # v

\* The supplied checksum x differs from the stored checksum v.
DiffersStr(x, v) == x # ABSENT /\ x # v

\* The entry supplied for k differs from the FILE row of k.
Differs(entry, k) ==
    \/ DiffersInt(entry.bytes, dids[k].bytes)
    \/ DiffersStr(entry.adler32, dids[k].adler32)
    \/ DiffersStr(entry.md5, dids[k].md5)

OpenDataset(p) == IsType(p, DATASET) /\ dids[p].is_open

\* The sum of column col over rows, a NULL counting as 0.
RECURSIVE Total(_, _)
Total(rows, col) ==
    IF rows = {} THEN 0
    ELSE LET r == CHOOSE q \in rows : TRUE
         IN (IF r[col] = NULL THEN 0 ELSE r[col]) + Total(rows \ {r}, col)

RowsOf(p) == {r \in contents : r.name = p}

\* C4: every child of a DATASET is a FILE that is not LOST; an attach to an
\* open DATASET that names a missing, non-FILE or LOST child fails and adds
\* nothing, with DataIdentifierNotFound for a missing child and
\* UnsupportedOperation for a non-FILE or LOST one.
C4_DatasetHoldsAvailableFiles ==
    /\ \A r \in contents :
         r.did_type = DATASET =>
           /\ r.child_type = FILE
           /\ IsType(r.child, FILE)
           /\ dids[r.child].availability # LOST
    /\ \A p \in FileKeys, children \in ChildrenWith(FileKeys), ign \in BOOLEAN :
         (OpenDataset(p) /\ \E k \in DOMAIN children : Defect(k) # NoError) =>
           \A s \in attach_dids_to_dids(Begin, <<Attachment(p, children)>>, ign) :
             /\ s.err # NoError
             /\ NothingAdded(s)
             /\ (children = Plain(DOMAIN children)) =>
                  s.err \in {Defect(k) : k \in DOMAIN children} \ {NoError}

\* C4 witness: the open dataset holds a file and has just refused a list
\* that names a missing DID.
C4_Witness ==
    /\ last.op = "attach_dids_to_dids" /\ last.err = DataIdentifierNotFound
    /\ OpenDataset(last.key)
    /\ RowsOf(last.key) # {}
    /\ \E k \in FileKeys : Defect(k) = UnsupportedOperation /\ dids[k].did_type = FILE

\* C8: an attach of available FILEs to an open DATASET that supplies a
\* bytes, adler32 or md5 different from the stored value fails with
\* FileConsistencyMismatch and adds nothing; every DATASET->FILE row caches
\* the bytes, adler32 and md5 stored on the FILE.
C8_SuppliedValuesMustMatch ==
    /\ \A r \in contents :
         (r.did_type = DATASET /\ r.child_type = FILE) =>
           /\ Live(r.child)
           /\ r.bytes = dids[r.child].bytes
           /\ r.adler32 = dids[r.child].adler32
           /\ r.md5 = dids[r.child].md5
    /\ \A p \in FileKeys, children \in ChildrenWith(FileKeys), ign \in BOOLEAN :
         (OpenDataset(p) /\ \A k \in DOMAIN children : Defect(k) = NoError) =>
           \A s \in attach_dids_to_dids(Begin, <<Attachment(p, children)>>, ign) :
             IF \E k \in DOMAIN children : Differs(children[k], k)
             THEN s.err = FileConsistencyMismatch /\ NothingAdded(s)
             ELSE s.err # FileConsistencyMismatch

\* C8 witness: the open dataset caches a file and has just refused a list
\* for a supplied value.
C8_Witness ==
    /\ last.op = "attach_dids_to_dids" /\ last.err = FileConsistencyMismatch
    /\ OpenDataset(last.key)
    /\ \E r \in RowsOf(last.key) : r.bytes = 10 /\ r.adler32 = "ad1" /\ r.md5 = "m1"

\* C9: after set_status(open=False) has closed a DATASET, its stored bytes,
\* length and events are the sum of bytes, the count and the sum of events
\* of its Association rows, a NULL counting as 0: 30, 2 and 10 for the files
\* of 10 and 20 bytes, 3 and 7 events.
C9_CloseStoresAggregates ==
    (/\ last.op = "set_status" /\ last.err = NoError
     /\ IsType(last.key, DATASET) /\ ~dids[last.key].is_open) =>
      LET did == dids[last.key]
          rows == RowsOf(last.key)
      IN /\ did.bytes = Total(rows, "bytes")
         /\ did.length = Cardinality(rows)
         /\ did.events = Total(rows, "events")
         /\ ({r.child : r \in rows} = {"f1", "f2"}) =>
              did.bytes = 30 /\ did.length = 2 /\ did.events = 10

\* C9 witness: the dataset of the files of 10 and 20 bytes has just been
\* closed.
C9_Witness ==
    /\ last.op = "set_status" /\ last.err = NoError
    /\ IsType(last.key, DATASET) /\ ~dids[last.key].is_open
    /\ {r.child : r \in RowsOf(last.key)} = {"f1", "f2"}
    /\ dids[last.key].bytes = 30 /\ dids[last.key].length = 2
    /\ dids[last.key].events = 10

\* ------------------------------------------------------------------------
\* The catalog of one archive: the archive file "a.zip", the file "f1", the
\* dataset "d", the container "c", and a key "n" that the catalog does not
\* know.
\* ------------------------------------------------------------------------

ArchiveKeys == {"a.zip", "f1", "d", "c", "n"}

ArchiveCatalog ==
    [k \in ArchiveKeys \ {"n"} |->
       CASE k = "a.zip" -> FileRow(100, NULL, AVAILABLE, "adz", NULLS)
         [] k = "f1" -> FileRow(10, 3, AVAILABLE, "ad1", "m1")
         [] k = "c" -> CollectionRow(CONTAINER, NULL)
         [] OTHER -> CollectionRow(DATASET, NULL)]

\* The children dictionary that supplies the bytes of every child.
Sized(ch) == [k \in ch |-> [PlainEntry EXCEPT !.bytes = PyInt(10)]]

ArchiveChildren == UNION {{Plain(ch), Sized(ch)} : ch \in ChildSets(ArchiveKeys)}

InitArchive ==
    InitWith(ArchiveCatalog, {}, [archive_dids : {FALSE}, archive_content : {FALSE}])

NextArchive ==
    \/ AttachWith({"a.zip", "d", "c"}, ArchiveChildren)
    \/ DetachFrom({"d", "c"}, ArchiveKeys)
    \/ SetStatus({"d"})
    \/ DeleteDids({"d", "f1"})

SpecArchive == InitArchive /\ [][NextArchive]_vars

\* C6: no Association and no Archive Constituent row joins a DID to itself:
\* attach_dids_to_dids(P, [P]) has failed for every parent type, the FILE
\* archive included.
C6_NoSelfEdge ==
    /\ \A r \in contents : r.name # r.child
    /\ \A r \in archive_contents : r.name # r.child

\* ------------------------------------------------------------------------
\* The catalog of nested containers: containers "c" and "c2", and the
\* datasets "d1" (of the files of 10 and 20 bytes) and "d2" (of the first).
\* ------------------------------------------------------------------------

NestedKeys == {"c", "c2", "d1", "d2"}

\* d1 as set_status left it when it closed it, or as add_dids made it.
NestedDids(closed) ==
    [k \in NestedKeys \cup {"f1", "f2"} |->
       CASE k = "f1" -> FileRow(10, 3, AVAILABLE, "ad1", "m1")
         [] k = "f2" -> FileRow(20, 7, AVAILABLE, "ad2", NULLS)
         [] k = "d1" -> IF closed
                        THEN [CollectionRow(DATASET, NULL) EXCEPT
                                !.is_open = FALSE, !.closed_at = 0,
                                !.bytes = 30, !.length = 2, !.events = 10]
                        ELSE CollectionRow(DATASET, NULL)
         [] k = "d2" -> CollectionRow(DATASET, NULL)
         [] OTHER -> CollectionRow(CONTAINER, NULL)]

NestedContents ==
    {Association("d1", "f1", DATASET, FILE, 10, "ad1", "m1", 3),
     Association("d1", "f2", DATASET, FILE, 20, "ad2", NULLS, 7),
     Association("d2", "f1", DATASET, FILE, 10, "ad1", "m1", 3)}

InitNested ==
    \E closed \in BOOLEAN :
      InitWith(NestedDids(closed), NestedContents,
               [archive_dids : {FALSE}, archive_content : {FALSE}])

NextNested ==
    \/ AttachDids(NestedKeys)
    \/ DetachFrom(NestedKeys, NestedKeys \cup {"f1"})
    \/ SetStatus(NestedKeys)

SpecNested == InitNested /\ [][NextNested]_vars

\* The DATASETs below the container k, at any depth, through containers.
DatasetsBelow(k) ==
    {j \in DOMAIN dids :
       /\ dids[j].did_type = DATASET
       /\ k \in Above({r \in contents : r.did_type = CONTAINER}, j)}

\* set_status(open=False) has just closed a CONTAINER.
JustClosedContainer ==
    /\ last.op = "set_status" /\ last.err = NoError
    /\ IsType(last.key, CONTAINER) /\ ~dids[last.key].is_open

\* C10 as the specification states it: after set_status(open=False) has
\* closed a CONTAINER, its stored bytes, length and events are the sums of
\* the stored bytes, length and events of the distinct DATASETs below it.
C10_CloseStoresDatasetSums ==
    JustClosedContainer =>
      LET did == dids[last.key]
          rows == {[key |-> j, bytes |-> dids[j].bytes, length |-> dids[j].length,
                    events |-> dids[j].events] : j \in DatasetsBelow(last.key)}
      IN /\ did.bytes = Total(rows, "bytes")
         /\ did.length = Total(rows, "length")
         /\ did.events = Total(rows, "events")

\* C10 as the code has it: after set_status(open=False) has closed a
\* CONTAINER, its stored bytes, length and events are the sum of bytes, the
\* count and the sum of events of the Association rows of the distinct
\* DATASETs below it.
C10_CloseStoresFileRows ==
    JustClosedContainer =>
      LET did == dids[last.key]
          rows == {r \in contents : r.name \in DatasetsBelow(last.key)}
      IN /\ did.bytes = Total(rows, "bytes")
         /\ did.length = Cardinality(rows)
         /\ did.events = Total(rows, "events")

\* C10 witness: the container just closed reaches, through another
\* container, an open dataset that was never closed, and stores the count
\* of its files.
C10_Witness ==
    /\ JustClosedContainer
    /\ \E j \in DatasetsBelow(last.key) :
         /\ ~HasEdge(contents, last.key, j)
         /\ dids[j].is_open /\ dids[j].length = NULL
         /\ RowsOf(j) # {}
    /\ dids[last.key].length > 0

\* ------------------------------------------------------------------------
\* Closed collections
\* ------------------------------------------------------------------------

\* The collection k is closed before and after the step.
StaysClosed(k) ==
    /\ k \in DOMAIN dids /\ dids[k].did_type # FILE /\ ~dids[k].is_open
    /\ k \in DOMAIN dids' /\ ~dids'[k].is_open

\* C11: while a DATASET or CONTAINER stays closed, no operation changes its
\* stored bytes, length, events or closed_at.
C11_ClosedAggregatesFrozen ==
    [][\A k \in FileKeys :
         StaysClosed(k) =>
           /\ dids'[k].bytes = dids[k].bytes
           /\ dids'[k].length = dids[k].length
           /\ dids'[k].events = dids[k].events
           /\ dids'[k].closed_at = dids[k].closed_at]_vars

\* C12: set_status(open=v) succeeds exactly on a DATASET or CONTAINER whose
\* is_open is the opposite of v; on an absent DID it raises
\* DataIdentifierNotFound, on a FILE or a DID already in state v
\* UnsupportedOperation; a call that raised has changed no DID and has left
\* no message.
C12_SetStatusNeedsOppositeState ==
    /\ \A k \in Keys, v \in BOOLEAN :
         LET s == set_status(Begin, k, v, now)
         IN /\ (s.err = NoError) <=>
                 (Live(k) /\ dids[k].did_type \in {DATASET, CONTAINER}
                  /\ dids[k].is_open = ~v)
            /\ ~Live(k) => s.err = DataIdentifierNotFound
            /\ (Live(k) /\ (dids[k].did_type = FILE \/ dids[k].is_open = v)) =>
                 s.err = UnsupportedOperation
            /\ (s.err = NoError) => s.dids[k].is_open = v
            /\ (s.err # NoError) => s.dids = dids
    /\ (last.op = "set_status" /\ last.err # NoError) => new_messages = EmptyBag

\* C12 witness: a collection that was closed has just refused to be closed
\* again, while the catalog has lost a DID and holds a file.
C12_Witness ==
    /\ last.op = "set_status" /\ last.err = UnsupportedOperation
    /\ Live(last.key) /\ dids[last.key].did_type # FILE
    /\ ~dids[last.key].is_open /\ dids[last.key].closed_at # NULL
    /\ \A s \in {set_status(Begin, last.key, FALSE, now)} : s.err = UnsupportedOperation
    /\ \E k \in Keys : ~Live(k)

\* ------------------------------------------------------------------------
\* Round trips
\* ------------------------------------------------------------------------

\* The session of the transaction that follows the commit of session s.
After(s) == [Session(s.dids, s.contents, s.archive_contents, s.deleted_dids)
              EXCEPT !.rules = s.rules]

\* xs are valid children of the open collection p, none attached to it yet.
ValidNewChildren(p, xs) ==
    /\ Live(p) /\ dids[p].is_open
    /\ \A k \in xs : Live(k) /\ ~HasEdge(contents, p, k)
    /\ \/ /\ dids[p].did_type = DATASET
          /\ \A k \in xs : dids[k].did_type = FILE /\ dids[k].availability # LOST
       \/ /\ dids[p].did_type = CONTAINER
          /\ p \notin xs
          /\ \A k \in xs : dids[k].did_type # FILE /\ k \notin Above(contents, p)
          /\ \A j, k \in xs : dids[j].did_type = dids[k].did_type

C14_IgnoreDuplicateIdempotent ==
    \A p \in ArchiveKeys, children \in ArchiveChildren :
      \A s1 \in attach_dids_to_dids(Begin, <<Attachment(p, children)>>, TRUE) :
        (s1.err = NoError) =>
          \A s2 \in attach_dids_to_dids(After(s1), <<Attachment(p, children)>>, TRUE) :
            /\ s2.err = NoError
            /\ s2.dids = s1.dids
            /\ s2.contents = s1.contents
            /\ s2.archive_contents = s1.archive_contents

\* C14 witness: the archive and the dataset have content, and the dataset
\* has just accepted, without a marker, a list that added nothing to it.
C14_Witness ==
    /\ last.op = "attach_dids_to_dids" /\ last.err = NoError
    /\ IsType(last.key, DATASET) /\ RowsOf(last.key) # {}
    /\ new_updated_dids = EmptyBag
    /\ archive_contents # {}

\* ------------------------------------------------------------------------
\* Deletion
\* ------------------------------------------------------------------------

ParentRows(k) == {r \in contents : r.child = k}

\* C15: if the collection D is attached under a parent, then after
\* delete_dids([D]) returns, no Association to D is left, an Association
\* History row exists for each one there was, and D is still a live DID.
C15_DeleteUnderParentDefers ==
    \A k \in Keys, did_type \in DIDType :
      (Live(k) /\ dids[k].did_type # FILE /\ ParentRows(k) # {}) =>
        LET s == delete_dids(Begin, <<[name |-> k, did_type |-> did_type]>>, FALSE, cfg, now)
        IN /\ s.err = NoError
           /\ \A r \in s.contents : r.child # k
           /\ \A r \in ParentRows(k) : r \in BagToSet(s.history)
           /\ k \in DOMAIN s.dids

\* C15 witness: delete_dids has just returned for a collection that is
\* still live, leaving the history row of its detachment.
C15_Witness ==
    /\ last.op = "delete_dids" /\ last.err = NoError
    /\ Live(last.key) /\ dids[last.key].did_type # FILE
    /\ ParentRows(last.key) = {}
    /\ \E r \in BagToSet(new_history) : r.child = last.key

\* C16: with deletion.archive_dids set, for a DATASET or CONTAINER d
\* without parents (and without a Deleted DID row yet), delete_dids([d])
\* followed by resurrect([d]) yields a live row for d whose attributes
\* equal those it had before the delete, except expired_at which is null,
\* and leaves no Deleted DID row for d.
C16_DeleteResurrectRestores ==
    \A k \in Keys :
      (/\ cfg.archive_dids
       /\ Live(k) /\ dids[k].did_type # FILE
       /\ ParentRows(k) = {}
       /\ k \notin DOMAIN deleted_dids) =>
        LET s1 == delete_dids(Begin, <<[name |-> k, did_type |-> dids[k].did_type]>>,
                              FALSE, cfg, now)
            s2 == resurrect(After(s1), <<k>>, now)
        IN /\ s1.err = NoError /\ k \notin DOMAIN s1.dids
           /\ s2.err = NoError
           /\ k \in DOMAIN s2.dids
           /\ s2.dids[k] = [dids[k] EXCEPT !.expired_at = NULL]
           /\ k \notin DOMAIN s2.deleted_dids

\* ------------------------------------------------------------------------
\* list_expired_dids
\* ------------------------------------------------------------------------

TypeError == "TypeError"
DatabaseException == "DatabaseException"

\* The largest number of workers the expired DIDs are shared between.
MaxWorkers == 2

\* The dialects whose query takes the hash predicate of filter_thread_work.
PushdownDialects == {"oracle", "mysql", "postgresql"}

\* The value the database's hash function gives a name.
db_hash(name) ==
    CASE name = "e1" -> 7 [] name = "e2" -> 4 [] name = "e3" -> 9
      [] name = "alice" -> 3 [] name = "bob" -> 4
      [] OTHER -> 2

\* filter_thread_work with hash_variable = 'name': the rows whose hashed
\* name, taken modulo total_threads, is thread_id.
filter_thread_work(rows, total_threads, thread_id) ==
    IF total_threads = NULL \/ thread_id = NULL THEN rows
    ELSE {k \in rows : db_hash(k) % total_threads = thread_id}

ExpiredRows_AnyRule(d, r, t) ==
    {k \in DOMAIN d : d[k].expired_at # NULL /\ d[k].expired_at < t}

\* The rows of the statement of list_expired_dids: expired_at < utcnow(),
\* which no row of null expired_at satisfies, and no rule of the same key
\* with locked = true.
ExpiredRows(d, r, t) ==
    {k \in DOMAIN d : /\ d[k].expired_at # NULL /\ d[k].expired_at < t
                      /\ ~\E rule \in r : rule.key = k /\ rule.locked}

\* ORDER BY expired_at: the orders in which the rows can come back.
OrderByExpiredAt(d, rows) ==
    {p \in Perms(rows) :
       \A i \in DOMAIN p, j \in DOMAIN p :
          i < j => d[p[i]].expired_at <= d[p[j]].expired_at}

\* "if limit: list_stmt = list_stmt.limit(limit)".
Limit(p, limit) ==
    IF Truthy(limit) /\ limit < Len(p) THEN SubSeq(p, 1, limit) ELSE p

\* list_expired_dids: the results it can give, each an exception or the
\* list of keys returned.  On sqlite with a worker number that is neither
\* None nor 0 the rows are filtered in the client by md5(name), which raises
\* TypeError for the str the column holds as soon as there is a row to hash;
\* with worker number 0 or None the condition of that branch is false and
\* the statement runs without any predicate on the worker.
list_expired_dids(d, r, dialect, worker_number, total_workers, limit, t) ==
    LET rows == ExpiredRows(d, r, t)
        Returned(ps) == {[err |-> NoError, dids |-> Limit(p, limit)] : p \in ps}
    IN IF dialect \in PushdownDialects
       THEN Returned(OrderByExpiredAt(d,
                filter_thread_work(rows, total_workers, worker_number)))
       ELSE IF dialect = "sqlite" /\ Truthy(worker_number) /\ Truthy(total_workers)
               /\ total_workers > 0
       THEN IF rows = {} THEN {[err |-> NoError, dids |-> <<>>]}
            ELSE {[err |-> TypeError, dids |-> <<>>]}
       ELSE IF Truthy(worker_number) /\ Truthy(total_workers)
       THEN {[err |-> DatabaseException, dids |-> <<>>]}
       ELSE Returned(OrderByExpiredAt(d, rows))

\* What a worker that has not run yet holds.
NotListed == [done |-> FALSE, err |-> NoError, dids |-> <<>>]

\* Worker k of scan.total_workers calls list_expired_dids without limit.
ListExpired ==
    /\ \E k \in 0..(scan.total_workers - 1) :
        /\ ~scan.listed[k].done
        /\ \E res \in list_expired_dids(dids, rules, scan.dialect, k,
                                        scan.total_workers, NULL, now) :
             scan' = [scan EXCEPT !.listed[k] =
                        [done |-> TRUE, err |-> res.err, dids |-> res.dids]]
    /\ UNCHANGED <<dids, contents, archive_contents, deleted_dids, now, cfg,
                   last, new_messages, new_updated_dids, new_history, calls,
                   rules, txs, temp, follow>>

\* The catalog the workers scan: three collections, each with any expiry
\* (none, two dates before now = 5, one after) and no rule, an unlocked rule or a
\* locked rule; any dialect and one to MaxWorkers workers.
ScanKeys == {"e1", "e2", "e3"}

ExpiryDates == {NULL, 1, 2, 9}

RuleKinds == {"none", "unlocked", "locked"}

InitScan ==
    /\ \E e \in [ScanKeys -> ExpiryDates], rk \in [ScanKeys -> RuleKinds] :
        /\ dids = [k \in ScanKeys |-> CollectionRow(DATASET, e[k])]
        /\ rules = {[key |-> k, locked |-> rk[k] = "locked"] :
                      k \in {j \in ScanKeys : rk[j] # "none"}}
    /\ \E dialect \in PushdownDialects \cup {"sqlite"}, n \in 1..MaxWorkers :
        scan = [dialect |-> dialect, total_workers |-> n,
                listed |-> [k \in 0..(n - 1) |-> NotListed]]
    /\ contents = {}
    /\ archive_contents = {}
    /\ deleted_dids = <<>>
    /\ now = 5
    /\ cfg = [archive_dids |-> FALSE]
    /\ last = [op |-> "none", key |-> NULLS, err |-> NoError]
    /\ new_messages = EmptyBag
    /\ new_updated_dids = EmptyBag
    /\ new_history = EmptyBag
    /\ calls = 0
    /\ txs = NoTxs
    /\ temp = NoTemp
    /\ follow = NoFollow

NextScan == ListExpired

SpecScan == InitScan /\ [][NextScan]_vars

\* The DIDs due for deletion: expired before now and without locked rule.
Due == {k \in DOMAIN dids : /\ dids[k].expired_at \in 0..(now - 1)
                            /\ [key |-> k, locked |-> TRUE] \notin rules}

Listed(k) == {scan.listed[k].dids[i] : i \in DOMAIN scan.listed[k].dids}

AllListed == \A k \in DOMAIN scan.listed : scan.listed[k].done

\* C17: once each of the N workers k = 0..N-1 has called list_expired_dids,
\* every call has returned, the lists are pairwise disjoint and together
\* they are exactly the expired DIDs without locked rule, on every dialect.
C17_ShardsPartitionDue ==
    AllListed =>
      /\ \A k \in DOMAIN scan.listed : scan.listed[k].err = NoError
      /\ \A j \in DOMAIN scan.listed, k \in DOMAIN scan.listed :
            j # k => Listed(j) \cap Listed(k) = {}
      /\ UNION {Listed(k) : k \in DOMAIN scan.listed} = Due

\* C18: on every dialect, whatever the worker, the number of workers and
\* the limit, every DID list_expired_dids returns is expired before now and
\* has no locked rule; and so is every DID a worker has listed.
C18_ListedAreDue ==
    /\ \A k \in DOMAIN scan.listed : Listed(k) \subseteq Due
    /\ \A n \in {NULL} \cup 1..MaxWorkers, k \in {NULL} \cup 0..MaxWorkers,
          limit \in {NULL, 0, 1, 2} :
         \A res \in list_expired_dids(dids, rules, scan.dialect, k, n, limit, now) :
            \A i \in DOMAIN res.dids : res.dids[i] \in Due

\* A worker has listed a DID while an expired DID is held back by a locked
\* rule, another has no expiry and a third expires later.
C18_Witness ==
    /\ \E k \in DOMAIN scan.listed : scan.listed[k].done /\ Listed(k) # {}
    /\ \E k \in DOMAIN dids : /\ dids[k].expired_at \in 0..(now - 1)
                              /\ [key |-> k, locked |-> TRUE] \in rules
    /\ \E k \in DOMAIN dids : dids[k].expired_at = NULL \/ dids[k].expired_at > now

\* ------------------------------------------------------------------------
\* Batches of attachments, over the catalog with the archive: the parents
\* are the archive, the dataset and the container, the children the dataset,
\* the file and a key that is not registered.
\* ------------------------------------------------------------------------

BatchParents == {"a.zip", "c", "d"}

BatchChildren == {Plain(ch) : ch \in ChildSets({"d", "f1", "n"})}

NextBatch ==
    \/ AttachBatch(BatchParents, BatchChildren)
    \/ SetStatus({"c", "d"})

SpecBatch == InitArchive /\ [][NextBatch]_vars

\* The loop state attach_dids_to_dids starts from.
FirstIteration == [s |-> Begin, parent_dids |-> EmptyBag, returned |-> FALSE]

\* The attachment fails from loop state st, whatever the order of the rows.
Fails(st, attachment, ign) ==
    \A rows \in Perms(DOMAIN attachment.dids) :
        AttachOne(st, attachment, ign, rows).s.err # NoError

\* The batch <<a1, a2>> can be processed to its end without an exception:
\* a1 succeeds, and a2 succeeds after it unless a1 returned from the loop.
AllSucceed(a1, a2, ign) ==
    \E rows \in Perms(DOMAIN a1.dids) :
        LET st == AttachOne(FirstIteration, a1, ign, rows)
        IN st.s.err = NoError /\ (st.returned \/ ~Fails(st, a2, ign))

NothingPersists ==
    /\ dids' = dids
    /\ contents' = contents
    /\ archive_contents' = archive_contents
    /\ deleted_dids' = deleted_dids
    /\ new_messages' = EmptyBag
    /\ new_updated_dids' = EmptyBag
    /\ new_history' = EmptyBag

\* C19: a batch of attach_dids_to_dids in which an attachment fails ends in
\* an exception, and a batch that ended in an exception leaves no
\* Association, Archive Constituent, DID, Updated-DID marker or message.
C19_BatchAllOrNothing ==
    /\ [](\A p1 \in BatchParents, p2 \in BatchParents,
             ch1 \in BatchChildren, ch2 \in BatchChildren, ign \in BOOLEAN :
            LET a1 == Attachment(p1, ch1)
                a2 == Attachment(p2, ch2)
            IN \A s \in attach_dids_to_dids(Begin, <<a1, a2>>, ign) :
                  s.err = NoError => AllSucceed(a1, a2, ign))
    /\ [][last'.op = "attach_batch" /\ last'.err # NoError => NothingPersists]_vars

\* A batch has just failed whose first attachment, to the parent the call
\* named first, succeeds on its own and adds rows, and whose second
\* attachment fails after it with the exception the call ended in.
C19_Witness ==
    /\ last.op = "attach_batch"
    /\ last.err # NoError
    /\ \E p2 \in BatchParents, ch1 \in BatchChildren, ch2 \in BatchChildren,
          ign \in BOOLEAN :
        \E rows \in Perms(DOMAIN ch1) :
          LET st == AttachOne(FirstIteration, Attachment(last.key, ch1), ign, rows)
          IN /\ st.s.err = NoError
             /\ ~st.returned
             /\ st.s.contents # contents
             /\ Fails(st, Attachment(p2, ch2), ign)
             /\ \A rows2 \in Perms(DOMAIN ch2) :
                  AttachOne(st, Attachment(p2, ch2), ign, rows2).s.err = last.err

\* ------------------------------------------------------------------------
\* Two callers at once: one transaction runs attach_dids_to_dids on the
\* dataset d while another runs set_status(d, open=False).  Every statement
\* reads the rows committed when it runs (READ COMMITTED), a row the session
\* has loaded keeps the values it was loaded with, and the rows a
\* transaction writes reach the tables at its commit.
\* ------------------------------------------------------------------------

RaceKeys == {"d", "f1", "f2"}

RaceCatalog == [k \in RaceKeys |-> FilesDids[k]]

RaceChildren == {Plain(ch) : ch \in ChildSets({"f1", "f2"})}

Idle == [attach |-> [pc |-> "idle", children |-> Plain({"f1"}), ign |-> FALSE,
                     parent_did |-> RaceCatalog["d"], err |-> NoError],
         close |-> [pc |-> "idle", contents |-> {}, err |-> NoError]]

InitRace ==
    /\ dids = RaceCatalog
    /\ contents = {}
    /\ archive_contents = {}
    /\ deleted_dids = <<>>
    /\ now = 0
    /\ cfg = [archive_dids |-> FALSE, archive_content |-> FALSE]
    /\ last = [op |-> "none", key |-> NULLS, err |-> NoError]
    /\ new_messages = EmptyBag
    /\ new_updated_dids = EmptyBag
    /\ new_history = EmptyBag
    /\ calls = 0
    /\ rules = {}
    /\ scan = NoScan
    /\ txs = Idle
    /\ temp = NoTemp
    /\ follow = NoFollow

\* The columns a session writes at flush: those it changed in the rows it
\* holds; the other columns keep what is committed.
Flushed(committed, seen, written) ==
    [k \in DOMAIN written |->
       IF k \in DOMAIN committed /\ k \in DOMAIN seen
       THEN [col \in DOMAIN written[k] |->
               IF written[k][col] = seen[k][col] THEN committed[k][col]
               ELSE written[k][col]]
       ELSE written[k]]

\* The end of a concurrent transaction whose session started from the view
\* seen and ended as s: commit if it returned, rollback if it raised.
CommitOver(op, key, seen, s) ==
    LET ok == s.err = NoError IN
    /\ dids' = IF ok THEN Flushed(dids, seen.dids, s.dids) ELSE dids
    /\ contents' = IF ok THEN contents \cup (s.contents \ seen.contents) ELSE contents
    /\ archive_contents' = IF ok THEN s.archive_contents ELSE archive_contents
    /\ deleted_dids' = IF ok THEN s.deleted_dids ELSE deleted_dids
    /\ new_messages' = IF ok THEN s.messages ELSE EmptyBag
    /\ new_updated_dids' = IF ok THEN s.updated_dids ELSE EmptyBag
    /\ new_history' = IF ok THEN s.history ELSE EmptyBag
    /\ last' = [op |-> op, key |-> key, err |-> s.err]
    /\ UNCHANGED <<now, cfg, rules, scan, calls, temp, follow>>

\* attach_dids_to_dids, first statement: the parent row is selected, with
\* no FOR UPDATE, and stays in the session as parent_did.
AttachReadParent ==
    /\ txs.attach.pc = "idle"
    /\ \E children \in RaceChildren, ign \in BOOLEAN :
        txs' = [txs EXCEPT !.attach = [pc |-> "read", children |-> children,
                                       ign |-> ign, parent_did |-> dids["d"],
                                       err |-> NoError]]
    /\ UNCHANGED <<dids, contents, archive_contents, deleted_dids, now, cfg,
                   last, new_messages, new_updated_dids, new_history, calls,
                   rules, scan, temp, follow>>

\* attach_dids_to_dids, the rest: the checks on parent_did as it was read,
\* the child rows and the inserts, then the end of the transaction.
AttachWrite ==
    /\ txs.attach.pc = "read"
    /\ LET seen == Session(Put(dids, "d", txs.attach.parent_did), contents,
                           archive_contents, deleted_dids)
       IN \E s \in attach_dids_to_dids(seen,
                      <<Attachment("d", txs.attach.children)>>, txs.attach.ign) :
            /\ CommitOver("attach_dids_to_dids", "d", seen, s)
            /\ txs' = [txs EXCEPT !.attach.pc = "done", !.attach.err = s.err]

\* set_status(open=False), up to the message: the DID is read and bytes,
\* length and events are computed from the Associations committed now.
CloseResolve ==
    /\ txs.close.pc = "idle"
    /\ txs' = [txs EXCEPT !.close.pc = "resolved", !.close.contents = contents]
    /\ UNCHANGED <<dids, contents, archive_contents, deleted_dids, now, cfg,
                   last, new_messages, new_updated_dids, new_history, calls,
                   rules, scan, temp, follow>>

\* set_status(open=False), the UPDATE with the values computed before, on
\* the row as it is committed now, then the end of the transaction.
CloseUpdate ==
    /\ txs.close.pc = "resolved"
    /\ LET seen == Session(dids, txs.close.contents, archive_contents, deleted_dids)
           s == set_status(seen, "d", FALSE, now)
       IN /\ CommitOver("set_status", "d", seen, s)
          /\ txs' = [txs EXCEPT !.close.pc = "done", !.close.err = s.err]

\* Calls are made one at a time until the two concurrent callers start.
NextRace ==
    \/ txs = Idle /\ AttachWith({"d"}, RaceChildren)
    \/ txs = Idle /\ SetStatus({"d"})
    \/ AttachReadParent
    \/ AttachWrite
    \/ CloseResolve
    \/ CloseUpdate

SpecRace == InitRace /\ [][NextRace]_vars

BothDone == txs.attach.pc = "done" /\ txs.close.pc = "done"

\* C20: once attach_dids_to_dids on d and a concurrent set_status(d,
\* open=False) have both finished, under every interleaving, either the
\* attach failed with UnsupportedOperation or the closed d's stored length
\* and bytes are the count and the sum over its Associations.
C20_AttachCloseSerialized ==
    (BothDone /\ ~dids["d"].is_open) =>
       \/ txs.attach.err = UnsupportedOperation
       \/ /\ dids["d"].length = Cardinality(RowsOf("d"))
          /\ dids["d"].bytes = Total(RowsOf("d"), "bytes")

\* ------------------------------------------------------------------------
\* The catalog with the archive, with deleted DIDs archived: DIDs are
\* registered, created by the archive sub-routine, deleted and resurrected.
\* ------------------------------------------------------------------------

CatalogChildren == UNION {{Plain(ch), Sized(ch)} : ch \in ChildSets({"d", "f1", "n"})}

InitCatalog ==
    InitWith(ArchiveCatalog, {}, [archive_dids : {TRUE}, archive_content : {FALSE}])

NextCatalog ==
    \/ AddDids({"d", "n"})
    \/ AttachWith({"a.zip"}, CatalogChildren)
    \/ DeleteDids({"d", "n"})
    \/ Resurrect({"d", "n"})

SpecCatalog == InitCatalog /\ [][NextCatalog]_vars

\* The row new is the row old, up to the flags an attach to an archive sets.
SameDid(old, new) == new = [old EXCEPT !.constituent = new.constituent,
                                       !.is_archive = new.is_archive]

\* C21: at most one live DID per key.  add_dids of a live key fails, with
\* DataIdentifierAlreadyExists for a collection; an attach to the archive
\* that succeeds keeps the row of every live DID and creates rows for keys
\* without one only; resurrect of a live key keeps its row, and fails when
\* the key has a Deleted DID row as well.
C21_OneLiveRowPerKey ==
    /\ \A k \in DOMAIN dids, did_type \in DIDType :
         \A s \in add_dids(Begin, <<[name |-> k, type |-> did_type,
                                    lifetime |-> NULL, dids |-> <<>>]>>, now) :
            s.err = IF did_type = FILE THEN UnsupportedOperation
                    ELSE DataIdentifierAlreadyExists
    /\ \A children \in CatalogChildren, ign \in BOOLEAN :
         \A s \in attach_dids_to_dids(Begin, <<Attachment("a.zip", children)>>, ign) :
            s.err = NoError =>
              /\ \A k \in DOMAIN dids : Exists(s, k) /\ SameDid(dids[k], s.dids[k])
              /\ DOMAIN s.dids \ DOMAIN dids \subseteq DOMAIN children
    /\ \A k \in DOMAIN dids :
         LET s == resurrect(Begin, <<k>>, now)
         IN /\ s.err = NoError => s.dids[k] = [dids[k] EXCEPT !.expired_at = NULL]
            /\ k \in DOMAIN deleted_dids => s.err # NoError

\* add_dids has just been refused for a live key, while the archive
\* sub-routine has created the DID n and a key is live and deleted at once.
C21_Witness ==
    /\ last.op = "add_dids"
    /\ last.err = DataIdentifierAlreadyExists
    /\ last.key \in DOMAIN dids
    /\ \E k \in DOMAIN dids : k \in DOMAIN deleted_dids \/ dids[k].constituent

\* ------------------------------------------------------------------------
\* The catalog with rules: the container c holds the dataset d, which holds
\* the file f1; the dataset e stands alone.  d and e may carry rules whose
\* lock counts add up to the threshold or to more.
\* ------------------------------------------------------------------------

RuleKeys == {"c", "d", "e", "f1"}

RulesCatalog ==
    [k \in RuleKeys |->
       CASE k = "f1" -> [FileRow(10, 3, AVAILABLE, "ad1", "m1") EXCEPT !.expired_at = 1]
         [] k = "c" -> CollectionRow(CONTAINER, NULL)
         [] OTHER -> CollectionRow(DATASET, NULL)]

RulesContents ==
    {Association("c", "d", CONTAINER, DATASET, NULL, NULLS, NULLS, NULL),
     Association("d", "f1", DATASET, FILE, 10, "ad1", "m1", 3)}

Rule(id, k, ok, replicating, stuck) ==
    [id |-> id, key |-> k, locked |-> FALSE, locks_ok_cnt |-> ok,
     locks_replicating_cnt |-> replicating, locks_stuck_cnt |-> stuck,
     soft_deleted |-> FALSE]

CandidateRules ==
    {Rule("r1", "d", 10000, 0, 0), Rule("r2", "d", 10000, 1, 0),
     Rule("r3", "e", 4000, 3000, 3001), Rule("r4", "e", 1, 0, 0)}

InitRules ==
    /\ dids = RulesCatalog
    /\ contents = RulesContents
    /\ archive_contents = {}
    /\ deleted_dids = <<>>
    /\ now = 0
    /\ cfg \in [archive_dids : {FALSE}, archive_content : BOOLEAN]
    /\ last = [op |-> "none", key |-> NULLS, err |-> NoError]
    /\ new_messages = EmptyBag
    /\ new_updated_dids = EmptyBag
    /\ new_history = EmptyBag
    /\ calls = 0
    /\ rules \in SUBSET CandidateRules
    /\ scan = NoScan
    /\ txs = NoTxs
    /\ temp = NoTemp
    /\ follow = NoFollow

NextRules ==
    \/ DeleteBatch(RuleKeys)
    \/ SetStatus({"d"})

SpecRules == InitRules /\ [][NextRules]_vars

\* The lock counts of the rule add up to more than the threshold.
AboveThreshold(rule) ==
    rule.locks_ok_cnt + rule.locks_replicating_cnt + rule.locks_stuck_cnt > 10000

\* C22: delete_dids with expire_rules=true of a batch in which some rule on
\* an input DID has lock counts above the threshold returns normally with
\* every input DID that was live still live, no DID removed or archived and
\* every Association as it was.
C22_LargeRuleDefersDeletion ==
    \A del \in DeleteBatches(RuleKeys) :
       LET input == {del[i].name : i \in DOMAIN del}
           s == delete_dids(Begin, del, TRUE, cfg, now)
       IN (\E rule \in rules : rule.key \in input /\ AboveThreshold(rule)) =>
            /\ s.err = NoError
            /\ DOMAIN s.dids = DOMAIN dids
            /\ s.contents = contents
            /\ s.deleted_dids = deleted_dids
            /\ s.updated_dids = EmptyBag

\* delete_dids has just returned for the dataset d, which has a parent and a
\* file: its large rule is expired only, d is live and expires in 24 h, and
\* both Associations are still there.
C22_Witness ==
    /\ last.op = "delete_dids" /\ last.err = NoError /\ last.key = "d"
    /\ \E rule \in rules : rule.key = "d" /\ rule.soft_deleted /\ AboveThreshold(rule)
    /\ "d" \in DOMAIN dids /\ dids["d"].expired_at = now + 86400
    /\ HasEdge(contents, "c", "d") /\ HasEdge(contents, "d", "f1")

\* The parents that gained an Association in the step.
ParentsChanged == {r.name : r \in contents' \ contents}

\* C23: after a batch of attach_dids_to_dids has returned, the Updated-DID
\* markers it added are one {parent, ATTACH} marker for each parent that
\* gained an Association, and no other.
C23_OneMarkerPerChangedParent ==
    [][(last'.op = "attach_batch" /\ last'.err = NoError) =>
         new_updated_dids' = SetToBag({UpdatedDID(p, ATTACH) : p \in ParentsChanged})]_vars

\* ------------------------------------------------------------------------
\* Temporary tables (rucio.db.sqla.util)
\* ------------------------------------------------------------------------

ProgrammingError == "ProgrammingError"

\* The largest index the manager of a session reaches for one name.
MaxTables == 2

Dialects == {"oracle", "postgresql", "mysql", "sqlite"}

\* The names create_scope_name_table, create_association_table and
\* create_id_table pass to create_temp_table.
Factories == {"TEMPORARY_SCOPE_NAME", "TEMPORARY_ASSOCIATION", "TEMPORARY_ID"}

\* f'{name}_{idx}'
IndexedName(name, idx) == name \o "_" \o ToString(idx)

\* f'ORA$PTT_{name}_{generate_uuid()}'
PrivateName(name, uuid) == "ORA$PTT_" \o name \o "_" \o uuid

\* The values generate_uuid() may return.
Uuids == {"u1", "u2"}

\* CREATE TABLE name: the statement fails when the table exists.
CreateTable(tables, name, on_commit) ==
    IF name \in DOMAIN tables THEN [tables |-> tables, err |-> ProgrammingError]
    ELSE [tables |-> Put(tables, name, [rows |-> {}, on_commit |-> on_commit]),
          err |-> NoError]

create_table_Kept(tables, name) ==
    IF name \in DOMAIN tables THEN tables
    ELSE Put(tables, name, [rows |-> {}, on_commit |-> "PRESERVE"])

\* CREATE TABLE IF NOT EXISTS name, then DELETE FROM name.
create_table_if_not_exists_and_clear(tables, name) ==
    Put(tables, name, [rows |-> {}, on_commit |-> "PRESERVE"])

\* _create_temp_table(name) on the connection whose temporary tables are
\* tables: the table it returns, the tables afterwards and the exception.
create_temp_table_on(dialect, globals, tables, name, uuid) ==
    IF dialect = "oracle"
    THEN IF name \in globals
         THEN [table |-> name, tables |-> tables, err |-> NoError]
         ELSE LET made == CreateTable(tables, PrivateName(name, uuid), "DROP DEFINITION")
              IN [table |-> PrivateName(name, uuid), tables |-> made.tables,
                  err |-> made.err]
    ELSE IF dialect = "postgresql"
    THEN LET made == CreateTable(tables, name, "DROP")
         IN [table |-> name, tables |-> made.tables, err |-> made.err]
    ELSE [table |-> name, tables |-> create_table_if_not_exists_and_clear(tables, name),
          err |-> NoError]

\* self.next_idx_to_use.setdefault(name, 0)
setdefault(next_idx_to_use, name) ==
    IF name \in DOMAIN next_idx_to_use THEN next_idx_to_use
    ELSE Put(next_idx_to_use, name, 0)

next_idx_Same(next_idx_to_use, name) == setdefault(next_idx_to_use, name)

\* self.next_idx_to_use[name] = idx + 1
next_idx(next_idx_to_use, name) ==
    LET idxs == setdefault(next_idx_to_use, name)
    IN [idxs EXCEPT ![name] = @ + 1]

\* TempTableManager.create_temp_table(name) with the uuid generate_uuid
\* would return: the state of the manager and of the connection afterwards.
create_temp_table(T, name, uuid) ==
    LET idx == setdefault(T.next_idx_to_use, name)[name]
        made == create_temp_table_on(T.dialect, T.globals, T.tables,
                                     IndexedName(name, idx), uuid)
        leftover == /\ IndexedName(name, idx) \in DOMAIN T.tables
                    /\ T.tables[IndexedName(name, idx)].rows # {}
    IN IF made.err # NoError
       THEN [T EXCEPT !.next_idx_to_use = setdefault(@, name), !.err = made.err]
       ELSE [T EXCEPT !.tables = made.tables,
                      !.next_idx_to_use = next_idx(@, name),
                      !.returned = @ (+) SetToBag({made.table}),
                      !.in_use = @ \cup {made.table},
                      !.not_empty = @ \cup {n \in {made.table} :
                                              made.tables[n].rows # {}},
                      !.had_rows = @ \cup {n \in {made.table} : leftover}]

\* The factories the callers of the model use.
UsedFactories == {"TEMPORARY_SCOPE_NAME", "TEMPORARY_ASSOCIATION"}

\* A caller asks the manager of the session for a table.
CreateTempTable ==
    /\ temp.err = NoError
    /\ \E name \in UsedFactories, uuid \in Uuids :
        /\ setdefault(temp.next_idx_to_use, name)[name] < MaxTables
        /\ temp' = create_temp_table(temp, name, uuid)
    /\ UNCHANGED <<dids, contents, archive_contents, deleted_dids, now, cfg,
                   last, new_messages, new_updated_dids, new_history, calls,
                   rules, scan, txs, follow>>

\* The caller fills a table it was given in this transaction.
InsertRows ==
    /\ temp.err = NoError
    /\ \E name \in temp.in_use :
        /\ temp.tables[name].rows = {}
        /\ temp' = [temp EXCEPT !.tables[name].rows = {"row"}]
    /\ UNCHANGED <<dids, contents, archive_contents, deleted_dids, now, cfg,
                   last, new_messages, new_updated_dids, new_history, calls,
                   rules, scan, txs, follow>>

\* The tables of the connection after the end of a transaction: dropped,
\* emptied or left as they are, as their ON COMMIT clause says.
AtCommit(tables) ==
    [n \in {m \in DOMAIN tables : tables[m].on_commit \in {"DELETE ROWS", "PRESERVE"}} |->
       IF tables[n].on_commit = "DELETE ROWS" THEN [tables[n] EXCEPT !.rows = {}]
       ELSE tables[n]]

\* The transaction ends, by commit or, after an exception, by rollback.
EndTransaction ==
    /\ temp.in_use # {} \/ temp.err # NoError
    /\ temp' = [temp EXCEPT !.tables = AtCommit(@), !.in_use = {}, !.had_rows = {},
                            !.err = NoError]
    /\ UNCHANGED <<dids, contents, archive_contents, deleted_dids, now, cfg,
                   last, new_messages, new_updated_dids, new_history, calls,
                   rules, scan, txs, follow>>

\* The connection goes back to the pool and a new session takes it: its
\* session.info holds no manager yet.
NewSession ==
    /\ temp.in_use = {} /\ temp.err = NoError
    /\ temp.returned # EmptyBag
    /\ temp' = [temp EXCEPT !.next_idx_to_use = <<>>, !.returned = EmptyBag]
    /\ UNCHANGED <<dids, contents, archive_contents, deleted_dids, now, cfg,
                   last, new_messages, new_updated_dids, new_history, calls,
                   rules, scan, txs, follow>>

\* The global temporary tables an oracle schema may hold: none, those of
\* index 0, or those of every index.
GlobalTables ==
    {{}, {IndexedName(name, 0) : name \in Factories},
     {IndexedName(name, idx) : name \in Factories, idx \in 0..MaxTables}}

InitTemp ==
    /\ dids = <<>>
    /\ contents = {}
    /\ archive_contents = {}
    /\ deleted_dids = <<>>
    /\ now = 0
    /\ cfg = [archive_dids |-> FALSE, archive_content |-> FALSE]
    /\ last = [op |-> "none", key |-> NULLS, err |-> NoError]
    /\ new_messages = EmptyBag
    /\ new_updated_dids = EmptyBag
    /\ new_history = EmptyBag
    /\ calls = 0
    /\ rules = {}
    /\ scan = NoScan
    /\ txs = NoTxs
    /\ follow = NoFollow
    /\ \E dialect \in Dialects :
       \E globals \in IF dialect = "oracle" THEN GlobalTables ELSE {{}} :
         temp = [dialect |-> dialect, globals |-> globals,
                 tables |-> [n \in globals |-> [rows |-> {}, on_commit |-> "DELETE ROWS"]],
                 next_idx_to_use |-> <<>>, returned |-> EmptyBag, in_use |-> {},
                 not_empty |-> {}, had_rows |-> {}, err |-> NoError]

NextTemp ==
    \/ CreateTempTable
    \/ InsertRows
    \/ EndTransaction
    \/ NewSession

SpecTemp == InitTemp /\ [][NextTemp]_vars

\* C24: the tables the manager of one session has returned all have
\* different names, those of one factory included, so no call is given a
\* table that an earlier call of the transaction still uses.
C24_DistinctTempTables ==
    \A n \in BagToSet(temp.returned) : CopiesIn(n, temp.returned) = 1

\* One factory has returned two tables in one transaction, and the first
\* holds its caller's rows.
C24_Witness ==
    \E m \in temp.in_use, n \in temp.in_use :
       /\ m # n
       /\ temp.tables[m].rows # {}
       /\ \E name \in Factories :
            \A q \in {m, n} : \E idx \in 0..MaxTables, uuid \in Uuids :
               q \in {IndexedName(name, idx), PrivateName(IndexedName(name, idx), uuid)}

\* C25: no table held rows at the moment the manager returned it.
C25_TempTableEmptyOnReturn == temp.not_empty = {}

\* A table has been returned under a name whose table held rows that an
\* earlier transaction of the connection had left.
C25_Witness == temp.had_rows # {} /\ temp.in_use \cap temp.had_rows # {}

\* The DID k has a Deleted DID row, or a live row with a past expired_at.
Resurrectable(k) ==
    \/ k \in DOMAIN deleted_dids
    \/ k \in DOMAIN dids /\ dids[k].expired_at \in 0..(now - 1)

\* C26: resurrect of one or two different DIDs leaves each of them a live
\* row with expired_at null and without Deleted DID row when each has a
\* Deleted DID row or a live row with a past expired_at, and fails with
\* DataIdentifierNotFound otherwise.
C26_ResurrectRestoresOrNotFound ==
    \A ks \in ChildSeqs({"d", "n"}) :
       LET s == resurrect(Begin, ks, now)
           named == {ks[i] : i \in DOMAIN ks}
       IN IF \A k \in named : Resurrectable(k)
          THEN /\ s.err = NoError
               /\ \A k \in named : /\ Exists(s, k)
                                   /\ s.dids[k].expired_at = NULL
                                   /\ k \notin DOMAIN s.deleted_dids
          ELSE s.err = DataIdentifierNotFound

\* Some requested child is the parent itself or is not attached to it.
BadDetach(p, sources) ==
    \E i \in DOMAIN sources : sources[i] = p \/ ~HasEdge(contents, p, sources[i])

\* C27: detach_dids(p, children) with a child that is p itself or is not
\* attached to p ends in an exception, also when attached children come
\* first in the request; and a detach_dids that ended in an exception has
\* removed no Association, changed no DID and left no history row, marker
\* or message.
C27_BadDetachChangesNothing ==
    /\ [](\A p \in NestedKeys, sources \in ChildSeqs(NestedKeys \cup {"f1", "f2"}) :
            BadDetach(p, sources) =>
               detach_dids(Begin, p, sources).err
                  \in {UnsupportedOperation, DataIdentifierNotFound})
    /\ [][(last'.op = "detach_dids" /\ last'.err # NoError) => NothingPersists]_vars

\* A detach_dids has just failed: a request that names an attached child of
\* the parent and then a child that is not attached removes the first
\* Association in the session and ends in that exception.
C27_Witness ==
    /\ last.op = "detach_dids"
    /\ last.err = DataIdentifierNotFound
    /\ \E k \in NestedKeys \cup {"f1", "f2"}, bad \in NestedKeys \cup {"f1", "f2"} :
         LET s == detach_dids(Begin, last.key, <<k, bad>>)
         IN /\ HasEdge(contents, last.key, k)
            /\ k # bad /\ ~HasEdge(contents, last.key, bad)
            /\ s.err = last.err
            /\ ~HasEdge(s.contents, last.key, k)

\* ------------------------------------------------------------------------
\* Followed DIDs, follow events and reports
\* ------------------------------------------------------------------------

NoResultFound == "NoResultFound"

\* Column email of the row of an account in table accounts.
Email(account) == account \o "@example.org"

\* The event types and payloads the callers of trigger_event pass.
EventInputs == {<<"attach", NULLS>>, <<"close", "note">>}

\* A row of table dids_followed.
DidFollowed(key, account, did_type) ==
    [key |-> key, account |-> account, did_type |-> did_type]

\* A row of table follow_events.
FollowEvent(key, account, did_type, event_type, payload, created_at) ==
    [key |-> key, account |-> account, did_type |-> did_type,
     event_type |-> event_type, payload |-> payload, created_at |-> created_at]

\* add_did_to_followed: the DID is read with scalar_one and a row of
\* dids_followed is saved for it; a second row of one key and account
\* violates the primary key.
add_did_to_followed(F, d, key, account) ==
    IF key \notin DOMAIN d THEN [follow |-> F, err |-> NoResultFound]
    ELSE LET new_did_followed == DidFollowed(key, account, d[key].did_type)
         IN IF \E r \in F.dids_followed : r.key = key /\ r.account = account
            THEN [follow |-> F, err |-> RucioException]
            ELSE [follow |-> [F EXCEPT !.dids_followed = @ \cup {new_did_followed}],
                  err |-> NoError]

\* remove_did_from_followed: the rows of the key and the account are deleted.
remove_did_from_followed(F, key, account) ==
    [F EXCEPT !.dids_followed = {r \in @ : ~(r.key = key /\ r.account = account)}]

\* trigger_event: one row of follow_events for each follower of the DID.
trigger_event(F, key, event_type, payload, t) ==
    [F EXCEPT !.follow_events = @ \cup
        {FollowEvent(key, did.account, did.did_type, event_type, payload, t) :
           did \in {r \in F.dids_followed : r.key = key}}]

\* ORDER BY created_at: the orders in which the rows can come back.
RECURSIVE OrderByCreatedAt(_)
OrderByCreatedAt(rows) ==
    IF rows = {} THEN {<<>>}
    ELSE UNION {{<<e>> \o q : q \in OrderByCreatedAt(rows \ {e})} :
                  e \in {r \in rows : \A o \in rows : r.created_at <= o.created_at}}

\* The statement of create_reports after filter_thread_work with
\* hash_variable = 'account'.
EventsOfWorker(rows, total_workers, worker_number) ==
    {e \in rows : e.account \in filter_thread_work({o.account : o \in rows},
                                                   total_workers, worker_number)}

\* A numbered entry of the body of a report.
Line(i, event) ==
    [i |-> i, name |-> event.key, event_type |-> event.event_type,
     payload |-> event.payload]

\* create_reports on the events its statement returned, in their order: one
\* body with an entry for each event, the events of each entry's key and
\* account deleted, and one email to the account of the last event.
create_reports(F, events) ==
    IF events = <<>> THEN [F EXCEPT !.emails = {}]
    ELSE LET body == [i \in DOMAIN events |-> Line(i, events[i])]
             account == events[Len(events)].account
         IN [F EXCEPT
               !.follow_events =
                  {r \in @ : ~\E i \in DOMAIN events :
                                /\ r.key = events[i].key
                                /\ r.account = events[i].account},
               !.emails = {[to |-> Email(account),
                            subject |-> "Report of affected dataset(s)",
                            body |-> body]}]

\* The DIDs and accounts of the calls: a dataset and an unregistered key.
FollowInputs == {<<"d", "alice">>, <<"d", "bob">>, <<"n", "alice">>}

AddDidToFollowed ==
    \E in \in FollowInputs :
      LET key == in[1]
          account == in[2]
          r == add_did_to_followed(follow, dids, key, account)
      IN /\ follow' = [r.follow EXCEPT !.emails = {}]
         /\ last' = [op |-> "add_did_to_followed", key |-> key, err |-> r.err]
         /\ UNCHANGED <<dids, contents, archive_contents, deleted_dids, now, cfg,
                        new_messages, new_updated_dids, new_history, calls,
                        rules, scan, txs, temp>>

RemoveDidFromFollowed ==
    \E in \in FollowInputs :
      /\ follow' = [remove_did_from_followed(follow, in[1], in[2]) EXCEPT !.emails = {}]
      /\ last' = [op |-> "remove_did_from_followed", key |-> in[1], err |-> NoError]
      /\ UNCHANGED <<dids, contents, archive_contents, deleted_dids, now, cfg,
                     new_messages, new_updated_dids, new_history, calls,
                     rules, scan, txs, temp>>

TriggerEvent ==
    /\ now < MaxCalls
    /\ \E key \in {"d", "n"}, in \in EventInputs :
         /\ follow' = [trigger_event(follow, key, in[1], in[2], now)
                         EXCEPT !.emails = {}]
         /\ last' = [op |-> "trigger_event", key |-> key, err |-> NoError]
    /\ now' = now + 1
    /\ UNCHANGED <<dids, contents, archive_contents, deleted_dids, cfg,
                   new_messages, new_updated_dids, new_history, calls,
                   rules, scan, txs, temp>>

CreateReports ==
    \E total_workers \in 1..MaxWorkers :
    \E worker_number \in 0..(total_workers - 1) :
    \E events \in OrderByCreatedAt(EventsOfWorker(follow.follow_events,
                                                  total_workers, worker_number)) :
      /\ follow' = create_reports(follow, events)
      /\ last' = [op |-> "create_reports", key |-> NULLS, err |-> NoError]
      /\ UNCHANGED <<dids, contents, archive_contents, deleted_dids, now, cfg,
                     new_messages, new_updated_dids, new_history, calls,
                     rules, scan, txs, temp>>

InitReports ==
    /\ dids = RulesCatalog
    /\ contents = {}
    /\ archive_contents = {}
    /\ deleted_dids = <<>>
    /\ now = 0
    /\ cfg = [archive_dids |-> FALSE, archive_content |-> FALSE]
    /\ last = [op |-> "none", key |-> NULLS, err |-> NoError]
    /\ new_messages = EmptyBag
    /\ new_updated_dids = EmptyBag
    /\ new_history = EmptyBag
    /\ calls = 0
    /\ rules = {}
    /\ scan = NoScan
    /\ txs = NoTxs
    /\ temp = NoTemp
    /\ follow = [dids_followed |-> {}, follow_events |-> {}, emails |-> {}]

NextReports ==
    \/ AddDidToFollowed
    \/ RemoveDidFromFollowed
    \/ TriggerEvent
    \/ CreateReports

SpecReports == InitReports /\ [][NextReports]_vars

\* The events the step has deleted.
Drained == follow.follow_events \ follow'.follow_events

\* The email lists the event under some number.
Lists(email, event) ==
    \E i \in DOMAIN email.body :
       /\ email.body[i].name = event.key
       /\ email.body[i].event_type = event.event_type
       /\ email.body[i].payload = event.payload

\* C28: every email of a create_reports call is addressed to an account whose
\* events are all it lists, and every event the call deletes is listed in an
\* email of the call that is addressed to the event's account.
C28_OneAccountPerDigest ==
    [][last'.op = "create_reports" =>
         /\ \A email \in follow'.emails : \A i \in DOMAIN email.body :
              \E event \in follow.follow_events :
                 /\ Email(event.account) = email.to
                 /\ Line(i, event) = email.body[i]
         /\ \A event \in Drained :
              \E email \in follow'.emails :
                 Email(event.account) = email.to /\ Lists(email, event)]_vars

\* C29: detaching an attached child k from p lowers the stored length of p
\* by exactly 1, and lowers its stored bytes and events by the bytes and
\* events cached in the Association whenever the parent's value and the
\* cached value are both non-null.
C29_DetachDecrements ==
    \A p \in DOMAIN dids, k \in DOMAIN dids :
       HasEdge(contents, p, k) /\ p # k =>
          LET s == detach_dids(Begin, p, <<k>>)
              associ_did == Edge(contents, p, k)
          IN /\ s.err = NoError
             /\ dids[p].length # NULL => s.dids[p].length = dids[p].length - 1
             /\ dids[p].bytes # NULL /\ associ_did.bytes # NULL =>
                   s.dids[p].bytes = dids[p].bytes - associ_did.bytes
             /\ dids[p].events # NULL /\ associ_did.events # NULL =>
                   s.dids[p].events = dids[p].events - associ_did.events

\* C30: the stored length, bytes and events of every DATASET and CONTAINER
\* are null or not negative.
C30_CountersNotNegative ==
    \A k \in DOMAIN dids :
       dids[k].did_type \in {DATASET, CONTAINER} =>
          /\ dids[k].length = NULL \/ dids[k].length >= 0
          /\ dids[k].bytes = NULL \/ dids[k].bytes >= 0
          /\ dids[k].events = NULL \/ dids[k].events >= 0

\* The value detach_dids leaves in a counter of the parent: lowered by n
\* when the counter and n are both neither null nor zero, else as it was.
Lowered(stored, n) == IF Truthy(stored) /\ Truthy(n) THEN stored - n ELSE stored

\* C29 (amended): detaching an attached child k from p lowers the stored
\* length of p by exactly 1 when it is neither null nor zero, lowers its
\* stored bytes and events by the bytes and events cached in the Association
\* when the parent's value and the cached value are both neither null nor
\* zero, and leaves each of the three as it was otherwise.
C29_DetachDecrementsNonZero ==
    \A p \in DOMAIN dids, k \in DOMAIN dids :
       HasEdge(contents, p, k) /\ p # k =>
          LET s == detach_dids(Begin, p, <<k>>)
              associ_did == Edge(contents, p, k)
          IN /\ s.err = NoError
             /\ s.dids[p].length = Lowered(dids[p].length, 1)
             /\ s.dids[p].bytes = Lowered(dids[p].bytes, associ_did.bytes)
             /\ s.dids[p].events = Lowered(dids[p].events, associ_did.events)

\* detach_dids has just removed a file from the closed dataset d1 of two
\* files: its length is 1 and its bytes and events are those it stored less
\* those of the file removed.
C29_Witness ==
    /\ last.op = "detach_dids" /\ last.key = "d1" /\ last.err = NoError
    /\ ~dids["d1"].is_open
    /\ dids["d1"].length = 1
    /\ \E k \in {"f1", "f2"} :
         /\ ~HasEdge(contents, "d1", k)
         /\ dids["d1"].bytes = 30 - dids[k].bytes
         /\ dids["d1"].events = 10 - dids[k].events

\* ------------------------------------------------------------------------
\* A dataset that was closed over one file
\* ------------------------------------------------------------------------

ReopenKeys == {"d", "f1", "f2"}

\* The dataset d as set_status stored it when it closed it over f1, the
\* files f1 and the larger f2.
ReopenDids ==
    [k \in ReopenKeys |->
       CASE k = "f1" -> FileRow(10, 3, AVAILABLE, "ad1", "m1")
         [] k = "f2" -> FileRow(20, 7, AVAILABLE, "ad2", NULLS)
         [] OTHER -> [CollectionRow(DATASET, NULL) EXCEPT
                        !.is_open = FALSE, !.closed_at = 0,
                        !.bytes = 10, !.length = 1, !.events = 3]]

ReopenContents == {Association("d", "f1", DATASET, FILE, 10, "ad1", "m1", 3)}

InitReopen ==
    InitWith(ReopenDids, ReopenContents,
             [archive_dids : BOOLEAN, archive_content : {FALSE}])

NextReopen ==
    \/ AttachDids(ReopenKeys)
    \/ DetachFrom({"d"}, {"f1", "f2"})
    \/ SetStatus({"d"})
    \/ DeleteDids({"d", "f2"})

SpecReopen == InitReopen /\ [][NextReopen]_vars

\* C31: every live DATASET that holds a live FILE with is_archive = true has
\* is_archive = true itself.
C31_ArchiveFlagReachesDatasets ==
    \A r \in contents :
       (/\ IsType(r.name, DATASET) /\ IsType(r.child, FILE)
        /\ dids[r.child].is_archive) => dids[r.name].is_archive

\* The file a.zip was attached to the dataset d before it had constituents,
\* and attach_dids_to_dids has just given it its first: both are archives.
C31_Witness ==
    /\ last.op = "attach_dids_to_dids" /\ last.key = "a.zip" /\ last.err = NoError
    /\ HasEdge(contents, "d", "a.zip")
    /\ archive_contents # {}
    /\ dids["a.zip"].is_archive /\ dids["d"].is_archive

\* C32: every Archive Constituent row goes from a live FILE whose name has an
\* archive extension and whose is_archive is true to a live FILE with
\* constituent = true; and attach_dids_to_dids to a FILE without archive
\* extension, or of a child that is registered with another type than FILE
\* to an archive, raises UnsupportedOperation (KeyError if a row read before
\* it is an unregistered child without bytes).
C32_ConstituentEdgesWellFormed ==
    /\ \A r \in archive_contents :
          /\ IsType(r.name, FILE) /\ is_archive(r.name) /\ dids[r.name].is_archive
          /\ IsType(r.child, FILE) /\ dids[r.child].constituent
    /\ \A p \in ArchiveKeys, children \in ArchiveChildren, ign \in BOOLEAN :
         \A s \in attach_dids_to_dids(Begin, <<Attachment(p, children)>>, ign) :
           /\ (IsType(p, FILE) /\ ~is_archive(p)) => s.err = UnsupportedOperation
           /\ (/\ IsType(p, FILE) /\ is_archive(p)
               /\ \E k \in DOMAIN children : Live(k) /\ ~IsType(k, FILE)) =>
                 \/ s.err = UnsupportedOperation
                 \/ /\ s.err = KeyError
                    /\ \E k \in DOMAIN children : ~Live(k) /\ children[k].bytes = Absent

\* The archive a.zip has just been given a file that was registered before
\* as an ordinary file: it is now a constituent, and a.zip is marked.
C32_Witness ==
    /\ last.op = "attach_dids_to_dids" /\ last.key = "a.zip" /\ last.err = NoError
    /\ \E r \in archive_contents : r.name = "a.zip" /\ r.child = "f1"
    /\ dids["f1"].constituent /\ dids["a.zip"].is_archive
    /\ \E s \in attach_dids_to_dids(Begin, <<Attachment("a.zip", Plain({"d"}))>>, FALSE) :
          s.err = UnsupportedOperation
    /\ \E s \in attach_dids_to_dids(Begin, <<Attachment("f1", Plain({"a.zip"}))>>, FALSE) :
          s.err = UnsupportedOperation

\* C33: a batch of attach_dids_to_dids whose first attachment has an archive
\* FILE as parent ends as the call with that attachment alone ends: with
\* the same exception if it fails, and otherwise without exception and
\* without any row of the attachment listed after it.
C33_ArchiveAttachmentEndsBatch ==
    \A p1 \in BatchParents, p2 \in BatchParents, ch1 \in BatchChildren,
       ch2 \in BatchChildren, ign \in BOOLEAN :
      (IsType(p1, FILE) /\ is_archive(p1)) =>
         /\ attach_dids_to_dids(Begin, <<Attachment(p1, ch1), Attachment(p2, ch2)>>, ign)
              = attach_dids_to_dids(Begin, <<Attachment(p1, ch1)>>, ign)
         /\ \A s \in attach_dids_to_dids(Begin, <<Attachment(p1, ch1),
                                                  Attachment(p2, ch2)>>, ign) :
               s.err = NoError => s.contents = contents

\* A batch that began with the archive a.zip has just returned; and a batch
\* of a.zip and of an attachment that raises on its own returns without
\* exception, as does one whose second attachment adds Associations on its
\* own, and neither adds an Association.
C33_Witness ==
    /\ last.op = "attach_batch" /\ last.key = "a.zip" /\ last.err = NoError
    /\ archive_contents # {}
    /\ \E ch1 \in BatchChildren, bad \in BatchChildren, good \in BatchChildren :
         /\ \A s \in attach_dids_to_dids(Begin, <<Attachment("d", bad)>>, TRUE) :
               s.err # NoError
         /\ \A s \in attach_dids_to_dids(Begin, <<Attachment("d", good)>>, TRUE) :
               s.err = NoError /\ s.contents # contents
         /\ \A s \in attach_dids_to_dids(Begin, <<Attachment("a.zip", ch1),
                                                  Attachment("d", bad)>>, TRUE) :
               s.err = NoError /\ s.contents = contents
         /\ \A s \in attach_dids_to_dids(Begin, <<Attachment("a.zip", ch1),
                                                  Attachment("d", good)>>, TRUE) :
               s.err = NoError /\ s.contents = contents

\* ------------------------------------------------------------------------
\* A caller that retries delete_dids
\* ------------------------------------------------------------------------

\* The caller calls delete_dids([d]) again, declaring d a collection; it
\* does so as long as it runs, so the call is not counted against MaxCalls.
RetryDelete ==
    \E did_type \in {DATASET, CONTAINER} :
      LET s == delete_dids(Begin, <<[name |-> "d", did_type |-> did_type]>>,
                           FALSE, cfg, now)
          ok == s.err = NoError
      IN /\ dids' = IF ok THEN s.dids ELSE dids
         /\ contents' = IF ok THEN s.contents ELSE contents
         /\ archive_contents' = IF ok THEN s.archive_contents ELSE archive_contents
         /\ deleted_dids' = IF ok THEN s.deleted_dids ELSE deleted_dids
         /\ new_messages' = IF ok THEN s.messages ELSE EmptyBag
         /\ new_updated_dids' = IF ok THEN s.updated_dids ELSE EmptyBag
         /\ new_history' = IF ok THEN s.history ELSE EmptyBag
         /\ rules' = IF ok THEN s.rules ELSE rules
         /\ last' = [op |-> "delete_dids", key |-> "d", err |-> s.err]
         /\ UNCHANGED <<now, cfg, scan, txs, temp, follow, calls>>

InitRetry ==
    InitWith(ArchiveCatalog, {}, [archive_dids : BOOLEAN, archive_content : {FALSE}])

NextRetry ==
    \/ AddDids({"d"})
    \/ AttachWith({"c", "d"}, {Plain(ch) : ch \in ChildSets({"d", "f1"})})
    \/ RetryDelete

\* The caller keeps retrying; the other callers make at most MaxCalls calls.
SpecRetry == InitRetry /\ [][NextRetry]_vars /\ WF_vars(RetryDelete)

\* C34: a live DATASET or CONTAINER d whose deletion the caller keeps
\* retrying, with no rule on it, is removed in the end, once the other
\* callers have stopped attaching it; and when d has no parent, or the first
\* call has detached it, the next call removes it.
C34_RetriedDeleteRemoves ==
    /\ (Live("d") ~> ~Live("d"))
    /\ [](\A did_type \in {DATASET, CONTAINER} :
            Live("d") =>
              LET del == <<[name |-> "d", did_type |-> did_type]>>
                  s1 == delete_dids(Begin, del, FALSE, cfg, now)
                  s2 == delete_dids(After(s1), del, FALSE, cfg, now)
              IN /\ s1.err = NoError
                 /\ "d" \notin DOMAIN s1.dids
                      \/ (s2.err = NoError /\ "d" \notin DOMAIN s2.dids))

\* ------------------------------------------------------------------------
\* The terminal phase of delete_dids and the stored type
\* ------------------------------------------------------------------------

\* The row of a FILE after a delete_dids call is its row before the call,
\* but for expired_at, which is null if the caller declared it a FILE and
\* the call reached the terminal phase.
FileRowKept(before, after) ==
    \/ after = before
    \/ after = [before EXCEPT !.expired_at = NULL]

\* C35: delete_dids never removes a DID row whose stored type is FILE,
\* whatever did_type the caller declares for it: after any call on any batch
\* every stored FILE is live, with its row unchanged or with expired_at
\* null alone changed; every row the call removes had the stored type
\* DATASET or CONTAINER.
C35_DeleteKeepsFiles ==
    [][last'.op = "delete_dids" =>
         /\ \A k \in DOMAIN dids :
              dids[k].did_type = FILE =>
                /\ k \in DOMAIN dids'
                /\ FileRowKept(dids[k], dids'[k])
         /\ \A k \in DOMAIN dids \ DOMAIN dids' :
              dids[k].did_type \in {DATASET, CONTAINER}]_vars

\* delete_dids of a batch that starts with the FILE f1, which has no parent
\* left, has returned normally: f1 is live without expiry, and the dataset
\* that held it is gone.
C35_Witness ==
    /\ last.op = "delete_dids"
    /\ last.key = "f1"
    /\ last.err = NoError
    /\ Live("f1")
    /\ dids["f1"].did_type = FILE
    /\ dids["f1"].expired_at = NULL
    /\ ~Live("d")

\* ------------------------------------------------------------------------
\* The Association History written by delete_dids
\* ------------------------------------------------------------------------

\* C36: the Association History logs removed Associations only: a
\* delete_dids call that returns adds one history row for each Association
\* it removes and no history row for any other Association, also with
\* deletion.archive_content set, when the call returns early because of
\* skip_deletion, and when a parent and its child are both in the batch.
C36_HistoryOfRemovedOnly ==
    [][last'.op = "delete_dids" /\ last'.err = NoError =>
         \A r \in contents \cup BagToSet(new_history') :
            CopiesIn(r, new_history') = IF r \in contents \ contents' THEN 1 ELSE 0]_vars

\* ------------------------------------------------------------------------
\* Two callers at once on two containers: one transaction runs
\* attach_dids_to_dids of c2 to c1 while another runs attach_dids_to_dids of
\* c1 to c2.  Each reads the rows committed when its statements run, and the
\* rows it adds reach the table at its commit.
\* ------------------------------------------------------------------------

CycleKeys == {"c1", "c2", "c3"}

CycleCatalog == [k \in CycleKeys |-> CollectionRow(CONTAINER, NULL)]

\* The container the transaction on parent p attaches.
Other(p) == IF p = "c1" THEN "c2" ELSE "c1"

NotStarted == [pc |-> "idle", contents |-> {}, err |-> NoError]

BothIdle == [p \in {"c1", "c2"} |-> NotStarted]

InitCycle ==
    /\ dids = CycleCatalog
    /\ contents = {}
    /\ archive_contents = {}
    /\ deleted_dids = <<>>
    /\ now = 0
    /\ cfg = [archive_dids |-> FALSE, archive_content |-> FALSE]
    /\ last = [op |-> "none", key |-> NULLS, err |-> NoError]
    /\ new_messages = EmptyBag
    /\ new_updated_dids = EmptyBag
    /\ new_history = EmptyBag
    /\ calls = 0
    /\ rules = {}
    /\ scan = NoScan
    /\ txs = BothIdle
    /\ temp = NoTemp
    /\ follow = NoFollow

\* Neither of c1 and c2 is a direct or transitive parent of the other.
NoAncestry ==
    /\ "c1" \notin Above(contents, "c2")
    /\ "c2" \notin Above(contents, "c1")

\* attach_dids_to_dids on the container p, the SELECT statements: the
\* parent row, the rows of the children and the rows list_all_parent_dids
\* walks are read as they are committed now, with no lock.  The first of the
\* two transactions starts while neither container is above the other.
AttachSelect ==
    /\ \E p \in {"c1", "c2"} :
        /\ txs[p].pc = "idle"
        /\ txs = BothIdle => NoAncestry
        /\ txs' = [txs EXCEPT ![p] = [pc |-> "read", contents |-> contents,
                                      err |-> NoError]]
    /\ UNCHANGED <<dids, contents, archive_contents, deleted_dids, now, cfg,
                   last, new_messages, new_updated_dids, new_history, calls,
                   rules, scan, temp, follow>>

\* attach_dids_to_dids on the container p, the rest: the checks on the rows
\* read, the Association added to the session, then the end of the
\* transaction, where the insert reaches the table.
AttachCommit ==
    \E p \in {"c1", "c2"} :
      /\ txs[p].pc = "read"
      /\ LET seen == Session(dids, txs[p].contents, archive_contents, deleted_dids)
         IN \E s \in attach_dids_to_dids(seen,
                        <<Attachment(p, Plain({Other(p)}))>>, FALSE) :
              /\ CommitOver("attach_dids_to_dids", p, seen, s)
              /\ txs' = [txs EXCEPT ![p].pc = "done", ![p].err = s.err]

\* Calls are made one at a time until the first of the two callers starts.
NextCycle ==
    \/ txs = BothIdle /\ AttachWith(CycleKeys, {Plain(ch) : ch \in ChildSets(CycleKeys)})
    \/ txs = BothIdle /\ DetachFrom(CycleKeys, CycleKeys)
    \/ AttachSelect
    \/ AttachCommit

SpecCycle == InitCycle /\ [][NextCycle]_vars

\* C39: under every interleaving of the two transactions attach(c1, [c2])
\* and attach(c2, [c1]), the first of which started while neither container
\* was above the other, at most one commits its edge: no state has both
\* c1 -> c2 and c2 -> c1.
C39_NoMutualEdges ==
    ~(HasEdge(contents, "c1", "c2") /\ HasEdge(contents, "c2", "c1"))

\* C37: in every state of the catalog list_all_parent_dids(d) comes to an
\* end for each DID d, and the DIDs it yields are exactly the direct and
\* transitive parents of d over the Associations.
C37_ParentsAreAncestors ==
    \A k \in DOMAIN dids :
       /\ ParentsListed(contents, k)
       /\ list_all_parent_dids(contents, k) = Above(contents, k)

\* ------------------------------------------------------------------------
\* Recursive child resolution
\* ------------------------------------------------------------------------

\* The keys reached from the keys of found over the rows of c, downwards:
\* the least set that holds found and the children of its members.
RECURSIVE Below(_, _)
Below(c, found) ==
    LET next == found \cup {r.child : r \in {q \in c : q.name \in found}}
    IN IF next = found THEN found ELSE Below(c, next)

\* The DIDs of stored type did_type reached from the DIDs ks by one edge or
\* more, over the edges whose parent is a CONTAINER for the target DATASET
\* and a CONTAINER or a DATASET for the target FILE.
ReachableOfType(ks, did_type) ==
    LET parents == IF did_type = DATASET THEN {CONTAINER} ELSE {CONTAINER, DATASET}
        edges == {r \in contents : IsType(r.name, CONTAINER) \/
                                   (DATASET \in parents /\ IsType(r.name, DATASET))}
        first == {r.child : r \in {q \in edges : q.name \in ks}}
    IN {j \in Below(edges, first) : IsType(j, did_type)}

\* C38: the recursive child resolution returns exactly the distinct DIDs of
\* the target type reachable from the input DIDs, at every depth: for the
\* target DATASET over edges whose parent is a CONTAINER, for the target
\* FILE over edges whose parent is a CONTAINER or a DATASET; for one input
\* DID (list_one_did_childs_stmt) and for a table of input DIDs
\* (list_child_dids_stmt).
C38_ChildResolution ==
    \A did_type \in {DATASET, FILE} :
       /\ \A k \in DOMAIN dids :
            list_one_did_childs(contents, k, did_type) = ReachableOfType({k}, did_type)
       /\ \A ks \in ChildSets(DOMAIN dids) :
            list_child_dids(contents, ks, did_type) = ReachableOfType(ks, did_type)

\* The container c holds the container c2, which holds the dataset d1 with
\* its files: the resolution from c finds d1 two levels down and f1 three
\* levels down, and from the dataset d1 it finds no dataset.
C38_Witness ==
    /\ HasEdge(contents, "c", "c2")
    /\ HasEdge(contents, "c2", "d1")
    /\ HasEdge(contents, "d1", "f1")
    /\ ~HasEdge(contents, "c", "d1")
    /\ "d1" \in list_one_did_childs(contents, "c", DATASET)
    /\ "f1" \in list_one_did_childs(contents, "c", FILE)
    /\ list_one_did_childs(contents, "d1", DATASET) = {}
    /\ list_child_dids(contents, {"c", "d2"}, FILE) # {}

\* ------------------------------------------------------------------------
\* list_expired_dids with a limit
\* ------------------------------------------------------------------------

\* The limits a caller passes: one DID, or more, up to all.
Limits == 1..Cardinality(ScanKeys)

\* The DIDs due for deletion that fall to worker k.
DueOf(k) == {j \in Due : db_hash(j) % scan.total_workers = k}

\* The list p is the first n of the DIDs of rows by ascending expired_at:
\* it names n different DIDs of rows, in ascending order, none of them
\* later than a DID of rows it leaves out.
FirstByExpiredAt(p, rows, n) ==
    /\ Len(p) = n
    /\ \A i \in DOMAIN p : p[i] \in rows
    /\ \A i \in DOMAIN p, j \in DOMAIN p :
          i < j => p[i] # p[j] /\ dids[p[i]].expired_at <= dids[p[j]].expired_at
    /\ \A i \in DOMAIN p, j \in rows :
          (\A m \in DOMAIN p : p[m] # j) => dids[p[i]].expired_at <= dids[j].expired_at

\* C40: list_expired_dids with a limit L > 0 returns, for every worker and
\* on every dialect, the first min(L, n) of the worker's n expired DIDs by
\* ascending expired_at.
C40_LimitGivesFirst ==
    \A k \in 0..(scan.total_workers - 1), limit \in Limits :
      \A res \in list_expired_dids(dids, rules, scan.dialect, k,
                                   scan.total_workers, limit, now) :
         /\ res.err = NoError
         /\ FirstByExpiredAt(res.dids, DueOf(k),
                             IF limit < Cardinality(DueOf(k)) THEN limit
                             ELSE Cardinality(DueOf(k)))

====
